---- MODULE Spec2Model ----
(***************************************************************************)
(* A model of class_utils: the mixed-type association builder `corr`       *)
(* (src/class_utils/corr.py) as a state machine.  One behaviour is one     *)
(* call of corr on one table: the column selection, then one step per      *)
(* iteration of the pair loop, then the return.                            *)
(*                                                                         *)
(* Cell values are strings: "1.0", "2.0", ... are finite numbers, "inf",   *)
(* "-inf" and "nan" the non-finite floats, "x", "y" category labels and    *)
(* "nan" (in an object column) the missing marker.  The pair statistics    *)
(* (the correlation function, the correlation ratio, Theil's U) are        *)
(* external collaborators: their results are kept as the uninterpreted     *)
(* terms [fn, x, y] of the function applied and the two sequences it got.  *)
(*                                                                         *)
(* The functions around corr have specifications of their own, each with   *)
(* the state of its call in one record: _num_cat_select (SpecSelect),      *)
(* numpy_crosstab and crosstab_plot (SpecCrosstab), _zaric_wrap_custom     *)
(* (SpecWrap), the cell loop of _zaric_heatmap (SpecZaric) and the mask    *)
(* corr_heatmap builds (SpecMasking).  SpecListed is corr called with      *)
(* lists that may name a column the table does not have.                   *)
(***************************************************************************)
EXTENDS Integers, Sequences, FiniteSets, TLC

\* ------------------------------------------------------------------ bounds

\* Most columns of a table whose whole pair loop is explored.
MaxCols == 3
\* Most rows of the two-column tables whose cell values are enumerated.
MaxRows == 2
\* Most entries of the two series that are crosstabulated.
MaxSeries == 3
\* Longest label that is wrapped, and largest wrapping width.
MaxLabel == 4
MaxWidth == 3
\* Most cells handed to the heatmap renderer.
MaxCells == 3
\* Most columns of the matrices corr_heatmap masks.
MaxSide == 2
\* Most columns in a column list of a ColGrid.
MaxGridCols == 2
\* Most cells whose labels are placed on the axes of _zaric_heatmap.
MaxAxisCells == 2
\* Most pixels that the grid slot of a cell spans on an axis.
MaxDelta == 8
\* The normalized sizes are the multiples of 1/FractionSteps from 0 to 1.
FractionSteps == 4

\* ------------------------------------------------------------------ tables

ColNames == <<"A", "B", "C", "D", "E", "F">>

FloatVals == {"1.0", "nan", "inf", "-inf"}
ObjVals == {"x", "y", "nan"}

\* The columns of r rows: a storage type and the cell values.
Columns(r) ==
    {[dtype |-> "float", vals |-> v] : v \in [1..r -> FloatVals]}
        \cup {[dtype |-> "object", vals |-> v] : v \in [1..r -> ObjVals]}

\* Four columns of three rows, two of each storage type, holding valid and
\* invalid cells in different rows.
SampleColumns ==
    {[dtype |-> "float", vals |-> <<"1.0", "inf", "2.0">>],
     [dtype |-> "float", vals |-> <<"nan", "2.0", "-inf">>],
     [dtype |-> "object", vals |-> <<"x", "y", "nan">>],
     [dtype |-> "object", vals |-> <<"y", "nan", "y">>]}

\* The tables of n columns drawn from cols, named A, B, ... in table order.
Tables(n, cols) ==
    {[i \in 1..n |-> [name |-> ColNames[i], dtype |-> f[i].dtype, vals |-> f[i].vals]] :
        f \in [1..n -> cols]}

\* The table of the documented example: A = [1, 2, 3, NaN], B = [x, y, x, y].
ExampleTable ==
    <<[name |-> "A", dtype |-> "float", vals |-> <<"1.0", "2.0", "3.0", "nan">>],
      [name |-> "B", dtype |-> "object", vals |-> <<"x", "y", "x", "y">>]>>

ColumnNames(t) == {t[i].name : i \in DOMAIN t}

\* df[col]
Column(t, col) == t[CHOOSE i \in DOMAIN t : t[i].name = col]

\* ---------------------------------------------------------------- _make_finite

\* Mutant of IsFinite: only NaN counts as non-finite.
IsFiniteNanOnly(v) == v # "nan"

\* np.isfinite
IsFinite(v) == v \notin {"nan", "inf", "-inf"}

\* pd.isnull
IsNull(v) == v \in {"nan", "None"}

\* col_mask: which rows of the column are valid under its treatment.
ColMask(c, numeric) ==
    [i \in 1..Len(c.vals) |-> IF numeric THEN IsFinite(c.vals[i]) ELSE ~IsNull(c.vals[i])]

\* np.where(np.logical_and(col1_mask, col2_mask)): the rows valid in both,
\* ascending.
WhereBoth(m1, m2) ==
    SelectSeq([i \in 1..Len(m1) |-> i], LAMBDA i : m1[i] /\ m2[i])

\* Mutant of TakeRows: the first len(index) rows instead of the indexed ones.
TakeRowsLeading(vals, index) == [k \in 1..Len(index) |-> vals[k]]

\* values[index]
TakeRows(vals, index) == [k \in 1..Len(index) |-> vals[index[k]]]

\* Mutant of ValuesCopy: df[col].values, an array that shares the column's
\* storage.
ValuesView(c) == [vals |-> c.vals, base |-> c.name]

\* df[col].values.copy(): a fresh array; base names the column whose storage
\* an array shares ("" for none).
ValuesCopy(c) == [vals |-> c.vals, base |-> ""]

\* arr[~mask] = replace_value: the array after the assignment.
ReplaceInvalid(vals, mask, replace_value) ==
    [i \in 1..Len(vals) |-> IF mask[i] THEN vals[i] ELSE replace_value]

\* The table after an in-place assignment to arr: only storage that arr
\* shares is reached.
AfterAssign(t, arr, new_vals) ==
    [i \in DOMAIN t |->
        IF t[i].name = arr.base THEN [t[i] EXCEPT !.vals = new_vals] ELSE t[i]]

Raise(t, exc) == [raised |-> exc, x |-> <<>>, y |-> <<>>, df |-> t]

\* _make_finite: the two cleaned sequences and the table as the call leaves
\* it, or the exception raised.  np.isfinite raises TypeError on a column of
\* object storage type.
MakeFinite(t, col1, col2, col1_numeric, col2_numeric, method, replace_value) ==
    LET c1 == Column(t, col1)
        c2 == Column(t, col2)
    IN  IF (col1_numeric /\ c1.dtype = "object") \/ (col2_numeric /\ c2.dtype = "object")
        THEN Raise(t, "TypeError")
        ELSE LET col1_mask == ColMask(c1, col1_numeric)
                 col2_mask == ColMask(c2, col2_numeric)
             IN  IF method = "mask"
                 THEN LET index == WhereBoth(col1_mask, col2_mask)
                      IN  [raised |-> "",
                           x |-> TakeRows(c1.vals, index),
                           y |-> TakeRows(c2.vals, index),
                           df |-> t]
                 ELSE IF method = "replace"
                 THEN LET xa == ValuesCopy(c1)
                          ya == ValuesCopy(c2)
                          xv == ReplaceInvalid(xa.vals, col1_mask, replace_value)
                          yv == ReplaceInvalid(ya.vals, col2_mask, replace_value)
                      IN  [raised |-> "",
                           x |-> xv,
                           y |-> yv,
                           df |-> AfterAssign(AfterAssign(t, xa, xv), ya, yv)]
                 ELSE Raise(t, "ValueError")

\* -------------------------------------------------------------- _num_cat_select

ArgNone == [kind |-> "None", cols |-> {}]
ArgAuto == [kind |-> "auto", cols |-> {}]
ArgList(S) == [kind |-> "list", cols |-> S]

\* The values a column-list argument takes: None, 'auto' or a list of names.
ListArgs(names) == {ArgNone, ArgAuto} \cup {ArgList(S) : S \in SUBSET names}

\* split_col_by_type: the columns of categorical and of numeric storage type.
SplitColByType(t) ==
    [categorical |-> {t[i].name : i \in {j \in DOMAIN t : t[j].dtype = "object"}},
     numeric |-> {t[i].name : i \in {j \in DOMAIN t : t[j].dtype = "float"}}]

\* df.select_dtypes(np.number).columns
NumberColumns(t) == {t[i].name : i \in {j \in DOMAIN t : t[j].dtype = "float"}}

\* Mutant of ColumnsIntersection: no column is dropped.
ColumnsKeptAll(t, S) == [k \in DOMAIN t |-> t[k].name]

\* df.columns.intersection(S): the columns named in S, in table order.
ColumnsIntersection(t, S) ==
    LET idx == SelectSeq([i \in DOMAIN t |-> i], LAMBDA i : t[i].name \in S)
    IN  [k \in 1..Len(idx) |-> t[idx[k]].name]

\* Mutant of NumCatSelect: categorical_inputs left at None is read as 'auto'.
NumCatSelectNoneAsAuto(t, categorical_arg, numeric_arg) ==
    LET cat1 == IF categorical_arg.kind \in {"None", "auto"} THEN ArgNone
                ELSE categorical_arg
        num1 == IF numeric_arg.kind = "auto" THEN ArgNone ELSE numeric_arg
        split == SplitColByType(t)
        cat == IF cat1.kind = "None" /\ num1.kind = "None" THEN split.categorical
               ELSE IF cat1.kind = "None" THEN split.categorical \ num1.cols
               ELSE cat1.cols
        num == IF cat1.kind = "None" /\ num1.kind = "None" THEN split.numeric
               ELSE IF cat1.kind = "None" THEN num1.cols
               ELSE IF num1.kind = "None"
               THEN (split.numeric \cup NumberColumns(t)) \ cat1.cols
               ELSE num1.cols
    IN  [df_sel |-> ColumnsIntersection(t, cat \cup num),
         categorical_inputs |-> cat,
         numeric_inputs |-> num]

\* _num_cat_select: the selected columns and the resolved partitions.
NumCatSelect(t, categorical_arg, numeric_arg) ==
    LET cat1 == IF categorical_arg.kind = "None" THEN ArgList({})
                ELSE IF categorical_arg.kind = "auto" THEN ArgNone
                ELSE categorical_arg
        num1 == IF numeric_arg.kind = "auto" THEN ArgNone ELSE numeric_arg
        split == SplitColByType(t)
        cat == IF cat1.kind = "None" /\ num1.kind = "None" THEN split.categorical
               ELSE IF cat1.kind = "None" THEN split.categorical \ num1.cols
               ELSE cat1.cols
        num == IF cat1.kind = "None" /\ num1.kind = "None" THEN split.numeric
               ELSE IF cat1.kind = "None" THEN num1.cols
               ELSE IF num1.kind = "None"
               THEN (split.numeric \cup NumberColumns(t)) \ cat1.cols
               ELSE num1.cols
    IN  [df_sel |-> ColumnsIntersection(t, cat \cup num),
         categorical_inputs |-> cat,
         numeric_inputs |-> num]

\* ------------------------------------------------------------------- corr

\* A number literal stored in a frame.
Const(v) == [fn |-> v, x |-> <<>>, y |-> <<>>]

\* The value a statistic returns for the two sequences it was given.
Stat(fn, a, b) == [fn |-> fn, x |-> a, y |-> b]

\* corr_method(x, y): the coefficient and its p-value.
CorrMethod(a, b) == <<Stat("corr_method.r", a, b), Stat("corr_method.p", a, b)>>
CorrelationRatio(a, b) == Stat("correlation_ratio", a, b)
TheilsU(a, b) == Stat("theils_u", a, b)
TheilsSymU(a, b) == Stat("theils_sym_u", a, b)

\* pd.DataFrame(fill, columns=cols, index=cols); w counts the writes to a cell.
NewFrame(cols, fill) ==
    LET S == {cols[i] : i \in DOMAIN cols}
    IN  [row \in S |-> [col \in S |-> [v |-> fill, w |-> 0]]]

\* frame.loc[row, col] = value
SetLoc(frame, row, col, value) ==
    [frame EXCEPT ![row][col] = [v |-> value, w |-> @.w + 1]]

\* Mutant of Combinations: itertools.combinations_with_replacement(cols, 2).
CombinationsWithReplacement(cols) ==
    LET n == Len(cols)
        all == [k \in 1..(n * n) |-> <<((k - 1) \div n) + 1, ((k - 1) % n) + 1>>]
        kept == SelectSeq(all, LAMBDA p : p[1] <= p[2])
    IN  [k \in 1..Len(kept) |-> <<cols[kept[k][1]], cols[kept[k][2]]>>]

\* Mutant of Combinations: itertools.permutations(cols, 2).
OrderedPairs(cols) ==
    LET n == Len(cols)
        all == [k \in 1..(n * n) |-> <<((k - 1) \div n) + 1, ((k - 1) % n) + 1>>]
        kept == SelectSeq(all, LAMBDA p : p[1] # p[2])
    IN  [k \in 1..Len(kept) |-> <<cols[kept[k][1]], cols[kept[k][2]]>>]

\* itertools.combinations(cols, 2)
RECURSIVE Combinations(_)
Combinations(cols) ==
    IF Len(cols) < 2 THEN <<>>
    ELSE [j \in 1..(Len(cols) - 1) |-> <<cols[1], cols[j + 1]>>]
            \o Combinations(Tail(cols))

VARIABLES
    pc,                  \* "idle", "loop", "done" or "raised"
    df,                  \* the input table
    nan_strategy,        \* arguments of the call
    nan_replace_value,
    sym_u,
    categorical_inputs,  \* the resolved partitions
    numeric_inputs,
    df_sel,              \* the selected columns, in table order
    df_r, df_p, df_ct,   \* the association, p-value and pair-kind frames
    todo,                \* the pairs the loop has still to visit
    visited,             \* the pairs visited so far
    x, y,                \* the sequences of the last pair
    raised,              \* the exception the call ended with
    list_names           \* the names the caller's column lists are drawn from

\* The functions called on their own, each with the state of its call.
VARIABLES
    selection,           \* _num_cat_select
    crosstab,            \* numpy_crosstab and crosstab_plot
    wrap,                \* _zaric_wrap_custom
    zaric,               \* the cell loop of _zaric_heatmap
    masking,             \* the mask corr_heatmap builds
    colgrid,             \* ColGrid: the constructor and map
    hmap,                \* heatmap: the validation of its arguments
    axes,                \* the axis labels of _zaric_heatmap
    extent               \* the pixel extent of a cell of _zaric_heatmap

corrVars == <<pc, df, nan_strategy, nan_replace_value, sym_u, categorical_inputs,
              numeric_inputs, df_sel, df_r, df_p, df_ct, todo, visited, x, y, raised,
              list_names>>

others == <<selection, crosstab, wrap, zaric, masking, colgrid, hmap, axes, extent>>

vars == <<corrVars, others>>

\* A function that is not called in the behaviours of a specification.
NotCalled == [pc |-> "idle"]

NanStrategies == {"mask", "replace", "drop"}
ReplaceValues == {"0"}

Idle(t) ==
    /\ pc = "idle"
    /\ df = t
    /\ nan_strategy = "mask"
    /\ nan_replace_value = "0"
    /\ sym_u = FALSE
    /\ categorical_inputs = {}
    /\ numeric_inputs = {}
    /\ df_sel = <<>>
    /\ df_r = <<>>
    /\ df_p = <<>>
    /\ df_ct = <<>>
    /\ todo = <<>>
    /\ visited = <<>>
    /\ x = <<>>
    /\ y = <<>>
    /\ raised = ""

\* corr alone is called, with lists that name columns of the table.
CorrOf(t) ==
    /\ Idle(t)
    /\ list_names = ColumnNames(t)
    /\ selection = NotCalled
    /\ colgrid = NotCalled
    /\ hmap = NotCalled
    /\ axes = NotCalled
    /\ extent = NotCalled
    /\ crosstab = NotCalled
    /\ wrap = NotCalled
    /\ zaric = NotCalled
    /\ masking = NotCalled

\* Tables of up to MaxCols columns.
Init == \E n \in 0..MaxCols : \E t \in Tables(n, SampleColumns) : CorrOf(t)

\* Two-column tables of up to MaxRows rows, and the documented example.
InitPair ==
    \E t \in UNION {Tables(2, Columns(r)) : r \in 0..MaxRows} \cup {ExampleTable} : CorrOf(t)

\* corr, up to the loop: the selection and the three frames.
CorrSelect ==
    /\ pc = "idle"
    /\ \E categorical_arg \in ListArgs(list_names), numeric_arg \in ListArgs(list_names) :
          LET sel == NumCatSelect(df, categorical_arg, numeric_arg)
          IN  /\ categorical_inputs' = sel.categorical_inputs
              /\ numeric_inputs' = sel.numeric_inputs
              /\ df_sel' = sel.df_sel
              /\ df_r' = NewFrame(sel.df_sel, Const("1.0"))
              /\ df_p' = NewFrame(sel.df_sel, Const("0.0"))
              /\ df_ct' = NewFrame(sel.df_sel, Const("0.0"))
              /\ todo' = Combinations(sel.df_sel)
    /\ nan_strategy' \in NanStrategies
    /\ nan_replace_value' \in ReplaceValues
    /\ sym_u' \in BOOLEAN
    /\ pc' = "loop"
    /\ UNCHANGED <<df, visited, x, y, raised, list_names, others>>

\* The frames after the six assignments of a branch.
Store(frame, col1, col2, v12, v21) == SetLoc(SetLoc(frame, col1, col2, v12), col2, col1, v21)

\* An exception of _make_finite ends the call.
Raises(exc) ==
    /\ pc' = "raised"
    /\ raised' = exc
    /\ UNCHANGED <<df, df_r, df_p, df_ct, x, y>>

Advance(col1, col2) ==
    /\ todo' = Tail(todo)
    /\ visited' = Append(visited, <<col1, col2>>)
    /\ UNCHANGED <<nan_strategy, nan_replace_value, sym_u, categorical_inputs,
                   numeric_inputs, df_sel, list_names, others>>

\* The values the numeric vs. numeric branch stores at [col1, col2] and [col2, col1].
NumNumR(a, b) == <<CorrMethod(a, b)[1], CorrMethod(a, b)[1]>>
NumNumP(a, b) == <<CorrMethod(a, b)[2], CorrMethod(a, b)[2]>>
NumNumType == <<Const("num_vs_num"), Const("num_vs_num")>>

PairNumNum ==
    /\ pc = "loop" /\ todo # <<>>
    /\ LET col1 == Head(todo)[1]
           col2 == Head(todo)[2]
           f == MakeFinite(df, col1, col2, TRUE, TRUE, nan_strategy, nan_replace_value)
       IN  /\ col1 \in numeric_inputs /\ col2 \in numeric_inputs
           /\ Advance(col1, col2)
           /\ IF f.raised # "" THEN Raises(f.raised)
              ELSE /\ x' = f.x /\ y' = f.y /\ df' = f.df
                   /\ df_r' = Store(df_r, col1, col2, NumNumR(f.x, f.y)[1], NumNumR(f.x, f.y)[2])
                   /\ df_p' = Store(df_p, col1, col2, NumNumP(f.x, f.y)[1], NumNumP(f.x, f.y)[2])
                   /\ df_ct' = Store(df_ct, col1, col2, NumNumType[1], NumNumType[2])
                   /\ UNCHANGED <<pc, raised>>

\* Mutant of NumCatR: the mirrored cell gets the ratio of the swapped arguments.
NumCatRSwapped(a, b) == <<CorrelationRatio(b, a), CorrelationRatio(a, b)>>

\* Mutant of NumCatType: the mirrored cell is tagged by its own orientation.
NumCatTypeOriented == <<Const("num_vs_cat"), Const("cat_vs_num")>>

\* The values the numeric vs. categorical branch stores.
NumCatR(a, b) == <<CorrelationRatio(b, a), CorrelationRatio(b, a)>>
NumCatP == <<Const("0.0"), Const("0.0")>>
NumCatType == <<Const("num_vs_cat"), Const("num_vs_cat")>>

PairNumCat ==
    /\ pc = "loop" /\ todo # <<>>
    /\ LET col1 == Head(todo)[1]
           col2 == Head(todo)[2]
           f == MakeFinite(df, col1, col2, TRUE, FALSE, nan_strategy, nan_replace_value)
       IN  /\ col1 \in numeric_inputs /\ col2 \notin numeric_inputs
           /\ Advance(col1, col2)
           /\ IF f.raised # "" THEN Raises(f.raised)
              ELSE /\ x' = f.x /\ y' = f.y /\ df' = f.df
                   /\ df_r' = Store(df_r, col1, col2, NumCatR(f.x, f.y)[1], NumCatR(f.x, f.y)[2])
                   /\ df_p' = Store(df_p, col1, col2, NumCatP[1], NumCatP[2])
                   /\ df_ct' = Store(df_ct, col1, col2, NumCatType[1], NumCatType[2])
                   /\ UNCHANGED <<pc, raised>>

\* Mutant of CatNumP: an undefined p-value stored as NaN.
CatNumPNan == <<Const("nan"), Const("nan")>>

\* Mutant of CatNumType: the tag of the numeric vs. categorical branch.
CatNumTypeCopied == <<Const("num_vs_cat"), Const("num_vs_cat")>>

\* The values the categorical vs. numeric branch stores.
CatNumR(a, b) == <<CorrelationRatio(a, b), CorrelationRatio(a, b)>>
CatNumP == <<Const("0.0"), Const("0.0")>>
CatNumType == <<Const("cat_vs_num"), Const("cat_vs_num")>>

PairCatNum ==
    /\ pc = "loop" /\ todo # <<>>
    /\ LET col1 == Head(todo)[1]
           col2 == Head(todo)[2]
           f == MakeFinite(df, col1, col2, FALSE, TRUE, nan_strategy, nan_replace_value)
       IN  /\ col1 \notin numeric_inputs /\ col2 \in numeric_inputs
           /\ Advance(col1, col2)
           /\ IF f.raised # "" THEN Raises(f.raised)
              ELSE /\ x' = f.x /\ y' = f.y /\ df' = f.df
                   /\ df_r' = Store(df_r, col1, col2, CatNumR(f.x, f.y)[1], CatNumR(f.x, f.y)[2])
                   /\ df_p' = Store(df_p, col1, col2, CatNumP[1], CatNumP[2])
                   /\ df_ct' = Store(df_ct, col1, col2, CatNumType[1], CatNumType[2])
                   /\ UNCHANGED <<pc, raised>>

\* Mutant of CatCatR: the two asymmetric coefficients stored transposed.
CatCatRTransposed(a, b, sym) ==
    IF sym THEN <<TheilsSymU(a, b), TheilsSymU(a, b)>>
    ELSE <<TheilsU(b, a), TheilsU(a, b)>>

\* The values the categorical vs. categorical branch stores.
CatCatR(a, b, sym) ==
    IF sym THEN <<TheilsSymU(a, b), TheilsSymU(a, b)>>
    ELSE <<TheilsU(a, b), TheilsU(b, a)>>
CatCatP == <<Const("0.0"), Const("0.0")>>
CatCatType == <<Const("cat_vs_cat"), Const("cat_vs_cat")>>

\* Mutant of PairCatCat: a column listed as categorical takes this branch
\* whether or not it is listed as numeric too.
PairCatCatListedFirst ==
    /\ pc = "loop" /\ todo # <<>>
    /\ LET col1 == Head(todo)[1]
           col2 == Head(todo)[2]
           f == MakeFinite(df, col1, col2, FALSE, FALSE, nan_strategy, nan_replace_value)
       IN  /\ col1 \in categorical_inputs \/ col1 \notin numeric_inputs
           /\ col2 \in categorical_inputs \/ col2 \notin numeric_inputs
           /\ Advance(col1, col2)
           /\ IF f.raised # "" THEN Raises(f.raised)
              ELSE /\ x' = f.x /\ y' = f.y /\ df' = f.df
                   /\ df_r' = Store(df_r, col1, col2, Stat("theils_u", f.x, f.y),
                                    Stat("theils_u", f.y, f.x))
                   /\ df_p' = Store(df_p, col1, col2, Const("0.0"), Const("0.0"))
                   /\ df_ct' = Store(df_ct, col1, col2, Const("cat_vs_cat"),
                                     Const("cat_vs_cat"))
                   /\ UNCHANGED <<pc, raised>>

PairCatCat ==
    /\ pc = "loop" /\ todo # <<>>
    /\ LET col1 == Head(todo)[1]
           col2 == Head(todo)[2]
           f == MakeFinite(df, col1, col2, FALSE, FALSE, nan_strategy, nan_replace_value)
       IN  /\ col1 \notin numeric_inputs /\ col2 \notin numeric_inputs
           /\ Advance(col1, col2)
           /\ IF f.raised # "" THEN Raises(f.raised)
              ELSE /\ x' = f.x /\ y' = f.y /\ df' = f.df
                   /\ df_r' = Store(df_r, col1, col2, CatCatR(f.x, f.y, sym_u)[1],
                                    CatCatR(f.x, f.y, sym_u)[2])
                   /\ df_p' = Store(df_p, col1, col2, CatCatP[1], CatCatP[2])
                   /\ df_ct' = Store(df_ct, col1, col2, CatCatType[1], CatCatType[2])
                   /\ UNCHANGED <<pc, raised>>

\* The loop is exhausted: corr returns the frames.
Return ==
    /\ pc = "loop" /\ todo = <<>>
    /\ pc' = "done"
    /\ UNCHANGED <<df, nan_strategy, nan_replace_value, sym_u, categorical_inputs,
                   numeric_inputs, df_sel, df_r, df_p, df_ct, todo, visited, x, y, raised,
                   list_names, others>>

Next ==
    \/ CorrSelect
    \/ PairNumNum
    \/ PairNumCat
    \/ PairCatNum
    \/ PairCatCat
    \/ Return

Spec == Init /\ [][Next]_vars

SpecPair == InitPair /\ [][Next]_vars

\* A name the caller lists that is not a column of the table.
ForeignName == "Z"

\* One column of each storage type.
PlainColumns ==
    {[dtype |-> "float", vals |-> <<"1.0", "inf", "2.0">>],
     [dtype |-> "object", vals |-> <<"x", "y", "nan">>]}

\* Tables of up to MaxCols columns, and lists that may name a foreign column.
InitListed ==
    /\ \E n \in 0..MaxCols : \E t \in Tables(n, PlainColumns) :
          /\ Idle(t)
          /\ list_names = ColumnNames(t) \cup {ForeignName}
    /\ selection = NotCalled
    /\ colgrid = NotCalled
    /\ hmap = NotCalled
    /\ axes = NotCalled
    /\ extent = NotCalled
    /\ crosstab = NotCalled
    /\ wrap = NotCalled
    /\ zaric = NotCalled
    /\ masking = NotCalled

SpecListed == InitListed /\ [][Next]_vars

\* ------------------------------------------------- _num_cat_select on its own

\* No call of corr is under way.
CorrIdle == Idle(<<>>) /\ list_names = {}

\* _num_cat_select is about to be called on a table of up to MaxCols columns.
InitSelect ==
    /\ CorrIdle
    /\ \E n \in 0..MaxCols : \E t \in Tables(n, SampleColumns) :
          selection = [pc |-> "idle", df |-> t, categorical_inputs |-> ArgNone,
                       numeric_inputs |-> ArgNone, out |-> <<>>]
    /\ colgrid = NotCalled
    /\ hmap = NotCalled
    /\ axes = NotCalled
    /\ extent = NotCalled
    /\ crosstab = NotCalled
    /\ wrap = NotCalled
    /\ zaric = NotCalled
    /\ masking = NotCalled

\* _num_cat_select(df, categorical_inputs, numeric_inputs)
NumCatSelectCall ==
    /\ selection.pc = "idle"
    /\ \E categorical_arg \in ListArgs(ColumnNames(selection.df)),
          numeric_arg \in ListArgs(ColumnNames(selection.df)) :
          selection' = [selection EXCEPT
                           !.pc = "done",
                           !.categorical_inputs = categorical_arg,
                           !.numeric_inputs = numeric_arg,
                           !.out = NumCatSelect(selection.df, categorical_arg, numeric_arg)]
    /\ UNCHANGED <<corrVars, crosstab, wrap, zaric, masking,
                   colgrid, hmap, axes, extent>>

NextSelect == NumCatSelectCall

SpecSelect == InitSelect /\ [][NextSelect]_vars

\* ------------------------------------------------------------- properties

\* The selected columns.
Sel == {df_sel[i] : i \in DOMAIN df_sel}

\* The pair of the last iteration begun.
LastPair == visited[Len(visited)]

\* Whether corr treats the column as numeric.
Numeric(c) == c \in numeric_inputs

\* The column of a pair that comes first in the table, and the other one.
Earlier(a, b) ==
    IF (CHOOSE i \in DOMAIN df_sel : df_sel[i] = a) < (CHOOSE i \in DOMAIN df_sel : df_sel[i] = b)
    THEN a ELSE b
Later(a, b) == IF Earlier(a, b) = a THEN b ELSE a

\* A value that is invalid under the column's treatment: non-finite in a
\* numeric column, the missing marker in a categorical one.
InvalidCell(v, numeric) ==
    IF numeric THEN v \in {"nan", "inf", "-inf"} ELSE v = "nan"

\* The rows of the table valid in both columns, ascending.
ValidRows(col1, col2) ==
    LET S == {i \in DOMAIN Column(df, col1).vals :
                 /\ ~InvalidCell(Column(df, col1).vals[i], Numeric(col1))
                 /\ ~InvalidCell(Column(df, col2).vals[i], Numeric(col2))}
    IN  CHOOSE s \in [1..Cardinality(S) -> S] :
            \A a, b \in 1..Cardinality(S) : a < b => s[a] < s[b]

\* The last iteration ran to its end and left its sequences in x and y.
PairDone == visited # <<>> /\ raised = ""

\* C1: under every NaN strategy the diagonal of the association frame is 1
\* and the diagonal of the p-value frame is 0, and no iteration of the pair
\* loop writes a diagonal cell of any frame.
C1_DiagonalUntouched ==
    pc # "idle" =>
        \A c \in Sel :
            /\ df_r[c][c] = [v |-> Const("1.0"), w |-> 0]
            /\ df_p[c][c] = [v |-> Const("0.0"), w |-> 0]
            /\ df_ct[c][c].w = 0

C1_Witness ==
    /\ pc = "done"
    /\ Len(df_sel) = 3
    /\ Len(visited) = 3
    /\ nan_strategy = "replace"
    /\ df_r["A"]["B"].v # Const("1.0")

\* C2: when corr returns, every unordered pair of selected columns has been
\* visited exactly once, C(n,2) visits in all, and every off-diagonal cell
\* of the three frames has been written exactly once; no cell is ever
\* written twice.
C2_EachPairOnce ==
    /\ pc # "idle" =>
          \A a, b \in Sel : df_r[a][b].w <= 1 /\ df_p[a][b].w <= 1 /\ df_ct[a][b].w <= 1
    /\ pc = "done" =>
          /\ 2 * Len(visited) = Len(df_sel) * (Len(df_sel) - 1)
          /\ \A a, b \in Sel : a # b =>
                /\ Cardinality({k \in DOMAIN visited : visited[k] \in {<<a, b>>, <<b, a>>}}) = 1
                /\ df_r[a][b].w = 1 /\ df_p[a][b].w = 1 /\ df_ct[a][b].w = 1
                /\ df_r[a][b].v # Const("1.0")
                /\ df_ct[a][b].v # Const("0.0")

C2_Witness ==
    /\ pc = "done"
    /\ Len(df_sel) = 3
    /\ visited = <<<<"A", "B">>, <<"A", "C">>, <<"B", "C">>>>
    /\ df_ct["C"]["A"].w = 1

\* C3: with nan_strategy 'mask' the two sequences handed to the pair
\* statistic hold exactly the rows valid in both columns, in row order and
\* of equal length; on the documented example the statistic gets the three
\* rows (1,x), (2,y), (3,x) and the pair is tagged num_vs_cat.
C3_MaskKeepsValidRows ==
    /\ (PairDone /\ nan_strategy = "mask") =>
          LET col1 == LastPair[1]
              col2 == LastPair[2]
              rows == ValidRows(col1, col2)
          IN  /\ Len(x) = Len(rows)
              /\ Len(y) = Len(rows)
              /\ \A k \in 1..Len(rows) :
                    /\ x[k] = Column(df, col1).vals[rows[k]]
                    /\ y[k] = Column(df, col2).vals[rows[k]]
    /\ (/\ pc = "done" /\ nan_strategy = "mask" /\ df = ExampleTable
        /\ df_sel = <<"A", "B">> /\ Numeric("A") /\ ~Numeric("B")) =>
          /\ x = <<"1.0", "2.0", "3.0">>
          /\ y = <<"x", "y", "x">>
          /\ df_r["A"]["B"].v = Stat("correlation_ratio", <<"x", "y", "x">>, <<"1.0", "2.0", "3.0">>)
          /\ df_ct["A"]["B"].v = Const("num_vs_cat")

C3_Witness ==
    /\ pc = "done"
    /\ nan_strategy = "mask"
    /\ df = ExampleTable
    /\ x = <<"1.0", "2.0", "3.0">>
    /\ y = <<"x", "y", "x">>
    /\ df_ct["A"]["B"].v = Const("num_vs_cat")

\* C4: with nan_strategy 'replace' an iteration leaves in x and y sequences
\* of the table's full row count, each invalid value replaced by
\* nan_replace_value column by column and each valid value unchanged, and
\* it leaves the input table as it was.
C4_ReplaceKeepsRows ==
    [][(pc = "loop" /\ todo # <<>> /\ nan_strategy = "replace" /\ raised' = "") =>
          LET c1 == Column(df, Head(todo)[1])
              c2 == Column(df, Head(todo)[2])
          IN  /\ df' = df
              /\ Len(x') = Len(c1.vals)
              /\ Len(y') = Len(c2.vals)
              /\ \A i \in DOMAIN c1.vals :
                    /\ x'[i] = IF InvalidCell(c1.vals[i], Numeric(c1.name))
                               THEN nan_replace_value ELSE c1.vals[i]
                    /\ y'[i] = IF InvalidCell(c2.vals[i], Numeric(c2.name))
                               THEN nan_replace_value ELSE c2.vals[i]]_vars

\* A row with one valid and one invalid entry, after the replacement.
C4_Witness ==
    /\ PairDone
    /\ nan_strategy = "replace"
    /\ Len(x) = 2
    /\ x[1] = nan_replace_value /\ y[1] = "y"
    /\ x[2] = "-inf" /\ y[2] = nan_replace_value

\* C5: for the pair of an iteration, the sequences of one strategy and those
\* the other strategy yields agree on every row valid in both columns, and
\* are identical when no row of the pair is invalid.
C5_StrategiesAgree ==
    (PairDone /\ nan_strategy \in {"mask", "replace"}) =>
        LET col1 == LastPair[1]
            col2 == LastPair[2]
            other == MakeFinite(df, col1, col2, Numeric(col1), Numeric(col2),
                                IF nan_strategy = "mask" THEN "replace" ELSE "mask",
                                nan_replace_value)
            m == IF nan_strategy = "mask" THEN <<x, y>> ELSE <<other.x, other.y>>
            r == IF nan_strategy = "mask" THEN <<other.x, other.y>> ELSE <<x, y>>
            rows == ValidRows(col1, col2)
        IN  /\ other.raised = ""
            /\ Len(m[1]) = Len(rows) /\ Len(m[2]) = Len(rows)
            /\ \A k \in 1..Len(rows) :
                  /\ m[1][k] = r[1][rows[k]]
                  /\ m[2][k] = r[2][rows[k]]
            /\ Len(rows) = Len(Column(df, col1).vals) => m = r

\* A pair with one row valid in both columns and one row that is not.
C5_Witness ==
    /\ PairDone
    /\ nan_strategy = "replace"
    /\ x = <<"1.0", nan_replace_value>>
    /\ y = <<"x", "y">>

\* C6: the pair-kind frame is symmetric: kind[i,j] = kind[j,i] for all
\* selected columns i, j.
C6_KindSymmetric ==
    pc # "idle" => \A i, j \in Sel : df_ct[i][j].v = df_ct[j][i].v

C6_Witness ==
    /\ pc = "done"
    /\ Len(df_sel) = 3
    /\ df_ct["A"]["B"].v = Const("num_vs_cat")
    /\ df_ct["C"]["B"].v = Const("cat_vs_num")

\* C7 as stated: the kind at [i,j] depends on nothing but the flag of column
\* i and the flag of column j, so two cells whose columns carry the same
\* flags hold the same kind.
C7_KindByFlagsAlone ==
    pc = "done" =>
        \A i, j, k, l \in Sel :
            (i # j /\ k # l /\ Numeric(i) = Numeric(k) /\ Numeric(j) = Numeric(l))
                => df_ct[i][j].v = df_ct[k][l].v

\* The kind two flags yield, the flag of the earlier column first.
KindOf(first_numeric, second_numeric) ==
    IF first_numeric
    THEN (IF second_numeric THEN "num_vs_num" ELSE "num_vs_cat")
    ELSE (IF second_numeric THEN "cat_vs_num" ELSE "cat_vs_cat")

\* C7: the kind at [i,j] (i # j) is determined by the flags of the two
\* columns taken in table order, the flag of the column that comes first in
\* the table first, whatever the other columns are.
C7_KindByFlagsInTableOrder ==
    pc = "done" =>
        \A i, j \in Sel : i # j =>
            df_ct[i][j].v = Const(KindOf(Numeric(Earlier(i, j)), Numeric(Later(i, j))))

\* A numeric row column and a categorical column that precedes it.
C7_Witness ==
    /\ pc = "done"
    /\ Len(df_sel) = 3
    /\ Numeric("A") /\ ~Numeric("B") /\ Numeric("C")
    /\ df_ct["A"]["B"].v = Const("num_vs_cat")
    /\ df_ct["C"]["B"].v = Const("cat_vs_num")

\* C8: for a pair with at least one numeric column the association and the
\* p-value frames are symmetric, both cells of the pair holding the one
\* value that a single evaluation of the pair statistic returned.
C8_NumericPairsSymmetric ==
    /\ pc # "idle" =>
          \A i, j \in Sel : (Numeric(i) \/ Numeric(j)) =>
              /\ df_r[i][j].v = df_r[j][i].v
              /\ df_p[i][j].v = df_p[j][i].v
    /\ (PairDone /\ (Numeric(LastPair[1]) \/ Numeric(LastPair[2]))) =>
          LET col1 == LastPair[1]
              col2 == LastPair[2]
              r == IF Numeric(col1) /\ Numeric(col2) THEN Stat("corr_method.r", x, y)
                   ELSE IF Numeric(col1) THEN Stat("correlation_ratio", y, x)
                   ELSE Stat("correlation_ratio", x, y)
              p == IF Numeric(col1) /\ Numeric(col2) THEN Stat("corr_method.p", x, y)
                   ELSE Const("0.0")
          IN  /\ df_r[col1][col2].v = r /\ df_r[col2][col1].v = r
              /\ df_p[col1][col2].v = p /\ df_p[col2][col1].v = p

C8_Witness ==
    /\ pc = "done"
    /\ Len(df_sel) = 3
    /\ Numeric("A") /\ Numeric("B") /\ ~Numeric("C")
    /\ df_r["B"]["A"].v.fn = "corr_method.r"
    /\ df_r["C"]["A"].v.fn = "correlation_ratio"
    /\ df_r["C"]["A"].v.x # df_r["C"]["A"].v.y

\* C9: for a categorical-categorical pair (col1, col2) with sym_u false
\* cell [col1,col2] holds theils_u(x, y) and cell [col2,col1] holds
\* theils_u(y, x), x and y being the cleaned sequences of the pair, so the
\* cells may differ; with sym_u true both cells hold theils_sym_u(x, y).
C9_UncertaintyCells ==
    (PairDone /\ ~Numeric(LastPair[1]) /\ ~Numeric(LastPair[2])) =>
        LET col1 == LastPair[1]
            col2 == LastPair[2]
        IN  IF sym_u
            THEN /\ df_r[col1][col2].v = Stat("theils_sym_u", x, y)
                 /\ df_r[col2][col1].v = df_r[col1][col2].v
            ELSE /\ df_r[col1][col2].v = Stat("theils_u", x, y)
                 /\ df_r[col2][col1].v = Stat("theils_u", y, x)

\* The asymmetric coefficient with two cells that differ.
C9_Witness ==
    /\ pc = "done"
    /\ ~sym_u
    /\ ~Numeric("A") /\ ~Numeric("B")
    /\ nan_strategy = "mask"
    /\ x = <<"x">> /\ y = <<"y">>
    /\ df_r["A"]["B"].v # df_r["B"]["A"].v

\* C10: in the p-value frame every cell of a pair with at least one
\* categorical column is 0; only the cells of numeric-numeric pairs hold the
\* p-value the correlation function returned.
C10_PValues ==
    /\ pc # "idle" =>
          \A i, j \in Sel :
              /\ (~Numeric(i) \/ ~Numeric(j)) => df_p[i][j].v = Const("0.0")
              /\ df_p[i][j].v # Const("0.0") =>
                    /\ i # j /\ Numeric(i) /\ Numeric(j)
                    /\ df_p[i][j].v.fn = "corr_method.p"
    /\ pc = "done" =>
          \A i, j \in Sel : (i # j /\ Numeric(i) /\ Numeric(j)) =>
              df_p[i][j].v.fn = "corr_method.p"
    /\ (PairDone /\ Numeric(LastPair[1]) /\ Numeric(LastPair[2])) =>
          df_p[LastPair[1]][LastPair[2]].v = Stat("corr_method.p", x, y)

C10_Witness ==
    /\ pc = "done"
    /\ Len(df_sel) = 3
    /\ Numeric("A") /\ Numeric("B") /\ ~Numeric("C")
    /\ df_p["A"]["B"].v.fn = "corr_method.p"
    /\ df_p["A"]["C"].v = Const("0.0")
    /\ df_p["C"]["B"].w = 1

\* C11: a call of corr with a nan_strategy other than 'mask' or 'replace'
\* raises a ValueError, whatever the table and the column roles, and returns
\* no matrices.
C11_UnknownStrategyRaises ==
    (pc # "idle" /\ nan_strategy \notin {"mask", "replace"}) =>
        /\ pc # "done"
        /\ pc = "raised" => raised = "ValueError"

\* ------------------------------------------------------------ numpy_crosstab

\* The entries of a series: a text, or one of the missing markers NaN and None.
Text(s) == [kind |-> "str", s |-> s]
NaN == [kind |-> "NaN", s |-> ""]
None == [kind |-> "None", s |-> ""]

XValues == {Text("a"), Text("b"), NaN, None}
YValues == {Text("p"), Text("q"), NaN, None}

\* Series.isnull(), for one entry
EntryIsNull(v) == v.kind \in {"NaN", "None"}

\* Series.astype('str'), for one entry
AsStr(v) == IF v.kind = "NaN" THEN "nan"
            ELSE IF v.kind = "None" THEN "None"
            ELSE v.s

\* The order of the labels by code point, the order np.unique sorts in.
Collation == <<"None", "a", "b", "nan", "p", "q">>

\* The names a sequence of names lists.
Listed(cols) == {cols[i] : i \in DOMAIN cols}

\* np.unique: the distinct values, sorted.
Unique(S) == SelectSeq(Collation, LAMBDA l : l \in S)

\* The rows numpy_crosstab counts: with dropna those where neither entry is null.
CountedRows(x_in, y_in, dropna) ==
    {i \in DOMAIN x_in : ~dropna \/ ~(EntryIsNull(x_in[i]) \/ EntryIsNull(y_in[i]))}

\* Mutant of DropLabel: the label stays.
DropLabelNever(labels, l) == labels

\* cm_df.drop([l], errors='ignore'), on the labels of one axis
DropLabel(labels, l) == SelectSeq(labels, LAMBDA k : k # l)

\* numpy_crosstab(x, y, dropna, shownan): the labels of the two axes and the
\* count of each cell.
NumpyCrosstab(x_in, y_in, dropna, shownan) ==
    LET rows == CountedRows(x_in, y_in, dropna)
        x_cats == Unique({AsStr(x_in[i]) : i \in rows})
        y_cats == Unique({AsStr(y_in[i]) : i \in rows})
        cm == [a \in Listed(x_cats) |-> [b \in Listed(y_cats) |->
                  Cardinality({i \in rows : AsStr(x_in[i]) = a /\ AsStr(y_in[i]) = b})]]
        index == IF shownan THEN x_cats ELSE DropLabel(x_cats, "nan")
        columns == IF shownan THEN y_cats ELSE DropLabel(y_cats, "nan")
    IN  [index |-> index,
         columns |-> columns,
         cm |-> [a \in Listed(index) |-> [b \in Listed(columns) |-> cm[a][b]]]]

\* The parameters numpy_crosstab declares.
NumpyCrosstabParams == {"x", "y", "dropna", "shownan"}

\* The series of up to MaxSeries entries.
SeriesPairs ==
    UNION {[1..n -> XValues] \X [1..n -> YValues] : n \in 0..MaxSeries}

InitCrosstab ==
    /\ CorrIdle
    /\ selection = NotCalled
    /\ colgrid = NotCalled
    /\ hmap = NotCalled
    /\ axes = NotCalled
    /\ extent = NotCalled
    /\ \E s \in SeriesPairs :
          crosstab = [pc |-> "idle", fn |-> "", x |-> s[1], y |-> s[2],
                      dropna |-> FALSE, shownan |-> FALSE, tab |-> <<>>, raised |-> ""]
    /\ wrap = NotCalled
    /\ zaric = NotCalled
    /\ masking = NotCalled

\* numpy_crosstab(x, y, dropna=dropna, shownan=shownan)
NumpyCrosstabCall ==
    /\ crosstab.pc = "idle"
    /\ \E dropna \in BOOLEAN, shownan \in BOOLEAN :
          crosstab' = [crosstab EXCEPT
                          !.pc = "done",
                          !.fn = "numpy_crosstab",
                          !.dropna = dropna,
                          !.shownan = shownan,
                          !.tab = NumpyCrosstab(crosstab.x, crosstab.y, dropna, shownan)]
    /\ UNCHANGED <<corrVars, selection, wrap, zaric, masking,
                   colgrid, hmap, axes, extent>>

\* crosstab_plot(x, y, dropna=dropna, shownan=shownan): it calls
\* numpy_crosstab(y, x, dropna=dropna, shownan=shownan, normalize=normalize),
\* draws the table and returns it; a keyword the callee does not declare
\* is a TypeError.
CrosstabPlot ==
    /\ crosstab.pc = "idle"
    /\ \E dropna \in BOOLEAN, shownan \in BOOLEAN :
          LET keywords == {"dropna", "shownan", "normalize"}
          IN  IF keywords \subseteq NumpyCrosstabParams
              THEN crosstab' = [crosstab EXCEPT
                          !.pc = "done",
                          !.fn = "crosstab_plot",
                          !.dropna = dropna,
                          !.shownan = shownan,
                          !.tab = NumpyCrosstab(crosstab.y, crosstab.x, dropna, shownan)]
              ELSE crosstab' = [crosstab EXCEPT
                          !.pc = "raised",
                          !.fn = "crosstab_plot",
                          !.dropna = dropna,
                          !.shownan = shownan,
                          !.raised = "TypeError"]
    /\ UNCHANGED <<corrVars, selection, wrap, zaric, masking,
                   colgrid, hmap, axes, extent>>

NextCrosstab == NumpyCrosstabCall \/ CrosstabPlot

SpecCrosstab == InitCrosstab /\ [][NextCrosstab]_vars

\* --------------------------------------------------------- _zaric_wrap_custom

\* The separators do_wrapping passes, and the characters of the labels.
SeparatorChars == {"_", "-"}
LabelChars == {"a", "b"} \cup SeparatorChars
Newline == "\n"

\* The labels of up to MaxLabel characters, none of them a newline.
Labels == UNION {[1..n -> LabelChars] : n \in 0..MaxLabel}

\* The state at the first test of the loop condition. Indices count from 0 as
\* in the source; the k-th character of a text is text[k + 1].
InitWrap ==
    /\ CorrIdle
    /\ selection = NotCalled
    /\ colgrid = NotCalled
    /\ hmap = NotCalled
    /\ axes = NotCalled
    /\ extent = NotCalled
    /\ crosstab = NotCalled
    /\ \E source_text \in Labels, width \in 1..MaxWidth, keep_separators \in BOOLEAN :
          wrap = [pc |-> "loop",
                  source_text |-> source_text,
                  separator_chars |-> SeparatorChars,
                  width |-> width,
                  keep_separators |-> keep_separators,
                  current_length |-> 0,
                  latest_separator |-> -1,
                  current_chunk_start |-> 0,
                  output |-> <<>>,
                  char_index |-> 0]
    /\ zaric = NotCalled
    /\ masking = NotCalled

\* Mutant of Appended: the place of a separator is not recorded.
AppendedUnmarked ==
    [wrap EXCEPT
        !.output = Append(@, wrap.source_text[wrap.char_index + 1]),
        !.current_length = @ + 1]

\* The loop body up to the test of the length: the character is appended.
Appended ==
    LET c == wrap.source_text[wrap.char_index + 1]
    IN  [wrap EXCEPT
            !.latest_separator = IF c \in wrap.separator_chars
                                 THEN wrap.char_index ELSE @,
            !.output = Append(@, c),
            !.current_length = @ + 1]

\* Mutant of CuttingLength: the separator is cut off although it is to be kept.
CuttingLengthOfDropped(char_index, latest_separator, keep_separators) ==
    char_index - latest_separator + 1

\* The number of characters taken back from the output at a separator cut.
CuttingLength(char_index, latest_separator, keep_separators) ==
    IF keep_separators THEN char_index - latest_separator
    ELSE char_index - latest_separator + 1

\* output[:-n], for n > 0
DropLast(output, n) == SubSeq(output, 1, Len(output) - n)

\* Mutant of ChunkStartAfter: the next chunk starts at the separator.
ChunkStartAt(latest_separator) == latest_separator

\* The start of the chunk that follows a cut at a separator.
ChunkStartAfter(latest_separator) == latest_separator + 1

\* An iteration that does not fill the line.
WrapAppend ==
    /\ wrap.pc = "loop"
    /\ wrap.char_index < Len(wrap.source_text)
    /\ Appended.current_length # wrap.width
    /\ wrap' = [Appended EXCEPT !.char_index = @ + 1]
    /\ UNCHANGED <<corrVars, selection, crosstab, zaric, masking,
                   colgrid, hmap, axes, extent>>

\* An iteration that fills the line of a chunk with a separator in it.
WrapCutAtSeparator ==
    /\ wrap.pc = "loop"
    /\ wrap.char_index < Len(wrap.source_text)
    /\ Appended.current_length = wrap.width
    /\ Appended.latest_separator >= wrap.current_chunk_start
    /\ LET a == Appended
           cutting_length == CuttingLength(a.char_index, a.latest_separator,
                                           a.keep_separators)
       IN  wrap' = [a EXCEPT
                       !.output = Append(IF cutting_length # 0
                                         THEN DropLast(a.output, cutting_length)
                                         ELSE a.output, Newline),
                       !.current_chunk_start = ChunkStartAfter(a.latest_separator),
                       !.char_index = ChunkStartAfter(a.latest_separator),
                       !.current_length = 0]
    /\ UNCHANGED <<corrVars, selection, crosstab, zaric, masking,
                   colgrid, hmap, axes, extent>>

\* An iteration that fills the line of a chunk without a separator.
WrapHardCut ==
    /\ wrap.pc = "loop"
    /\ wrap.char_index < Len(wrap.source_text)
    /\ Appended.current_length = wrap.width
    /\ Appended.latest_separator < wrap.current_chunk_start
    /\ wrap' = [Appended EXCEPT
                    !.output = Append(@, Newline),
                    !.current_chunk_start = wrap.char_index + 1,
                    !.latest_separator = wrap.char_index,
                    !.char_index = @ + 1,
                    !.current_length = 0]
    /\ UNCHANGED <<corrVars, selection, crosstab, zaric, masking,
                   colgrid, hmap, axes, extent>>

WrapReturn ==
    /\ wrap.pc = "loop"
    /\ wrap.char_index >= Len(wrap.source_text)
    /\ wrap' = [wrap EXCEPT !.pc = "done"]
    /\ UNCHANGED <<corrVars, selection, crosstab, zaric, masking,
                   colgrid, hmap, axes, extent>>

NextWrap == WrapAppend \/ WrapCutAtSeparator \/ WrapHardCut \/ WrapReturn

SpecWrap == InitWrap /\ [][NextWrap]_vars

\* The widths of a call with any integer width: negative, 0 and positive.
AnyWidths == {w - 1 : w \in 0..(MaxWidth + 1)}

\* The separator sets of a call with any separators: none, some, every
\* character.
AnySeparators == {{}, {"_"}, SeparatorChars, LabelChars}

\* _zaric_wrap_custom(source_text, separator_chars, width, keep_separators)
\* at the first test of the loop condition.
InitWrapAny ==
    /\ CorrIdle
    /\ selection = NotCalled
    /\ colgrid = NotCalled
    /\ hmap = NotCalled
    /\ axes = NotCalled
    /\ extent = NotCalled
    /\ crosstab = NotCalled
    /\ zaric = NotCalled
    /\ masking = NotCalled
    /\ \E source_text \in Labels, separator_chars \in AnySeparators,
          width \in AnyWidths, keep_separators \in BOOLEAN :
          wrap = [pc |-> "loop",
                  source_text |-> source_text,
                  separator_chars |-> separator_chars,
                  width |-> width,
                  keep_separators |-> keep_separators,
                  current_length |-> 0,
                  latest_separator |-> -1,
                  current_chunk_start |-> 0,
                  output |-> <<>>,
                  char_index |-> 0]

\* The loop runs on: the interpreter takes the next iteration or returns.
SpecWrapAny == InitWrapAny /\ [][NextWrap]_vars /\ WF_vars(NextWrap)

\* ------------------------------------------------ _zaric_heatmap, the cell loop

\* The values of a cell: its size, its color and whether it is circular.
SizeVals == {0, 1}
ColorVals == {"0.5", "-0.2", "nan"}

\* The mask argument: None, or an entry for each cell.
MaskNone == [given |-> FALSE, at |-> <<>>]
MaskOf(m) == [given |-> TRUE, at |-> m]

\* The state before the loop over the cells; index counts from 0.
InitZaric ==
    /\ CorrIdle
    /\ selection = NotCalled
    /\ colgrid = NotCalled
    /\ hmap = NotCalled
    /\ axes = NotCalled
    /\ extent = NotCalled
    /\ crosstab = NotCalled
    /\ wrap = NotCalled
    /\ \E n \in 0..MaxCells :
          \E size \in [1..n -> SizeVals], color \in [1..n -> ColorVals],
             mask \in {MaskNone} \cup {MaskOf(m) : m \in [1..n -> BOOLEAN]} :
              zaric = [pc |-> "loop",
                       size |-> size,
                       color |-> color,
                       mask |-> mask,
                       circular |-> [i \in 1..n |-> FALSE],
                       index |-> 0,
                       patch_col |-> <<>>,
                       patch_col_ind |-> <<>>,
                       collection |-> <<>>]
    /\ masking = NotCalled

\* Mutant of Suppressed: a cell is left out only when all three tests hold.
SuppressedWhenAll(size, color, mask, index) ==
    /\ size[index + 1] = 0
    /\ color[index + 1] = "nan"
    /\ mask.given /\ mask.at[index + 1]

\* The test that leaves a cell out of the drawing.
Suppressed(size, color, mask, index) ==
    \/ size[index + 1] = 0
    \/ color[index + 1] = "nan"
    \/ mask.given /\ mask.at[index + 1]

\* The shape built for the cell at index: a circle or a rectangle.
Shape(index, use_circ) == [cell |-> index, circle |-> use_circ]

\* color[patch_col_ind]
Take(color, ind) == [k \in DOMAIN ind |-> color[ind[k] + 1]]

\* An iteration that skips its cell.
CellSkip ==
    /\ zaric.pc = "loop"
    /\ zaric.index < Len(zaric.size)
    /\ Suppressed(zaric.size, zaric.color, zaric.mask, zaric.index)
    /\ zaric' = [zaric EXCEPT !.index = @ + 1]
    /\ UNCHANGED <<corrVars, selection, crosstab, wrap, masking,
                   colgrid, hmap, axes, extent>>

\* An iteration that builds the shape of its cell.
CellDraw ==
    /\ zaric.pc = "loop"
    /\ zaric.index < Len(zaric.size)
    /\ ~Suppressed(zaric.size, zaric.color, zaric.mask, zaric.index)
    /\ zaric' = [zaric EXCEPT
                     !.patch_col = Append(@, Shape(zaric.index,
                                                   zaric.circular[zaric.index + 1])),
                     !.patch_col_ind = Append(@, zaric.index),
                     !.index = @ + 1]
    /\ UNCHANGED <<corrVars, selection, crosstab, wrap, masking,
                   colgrid, hmap, axes, extent>>

\* After the loop: the collection of the shapes, with a color for each.
Collect ==
    /\ zaric.pc = "loop"
    /\ zaric.index >= Len(zaric.size)
    /\ zaric' = [zaric EXCEPT
                     !.pc = "done",
                     !.collection = [shapes |-> zaric.patch_col,
                                     array |-> Take(zaric.color, zaric.patch_col_ind)]]
    /\ UNCHANGED <<corrVars, selection, crosstab, wrap, masking,
                   colgrid, hmap, axes, extent>>

NextZaric == CellSkip \/ CellDraw \/ Collect

SpecZaric == InitZaric /\ [][NextZaric]_vars

\* ------------------------------------------------- corr_heatmap, the mask

\* The p-values and the bounds, in steps of some unit.
PLevels == {0, 1, 2}

\* The bound argument: None or a number.
BoundNone == [given |-> FALSE, v |-> 0]
BoundOf(b) == [given |-> TRUE, v |-> b]

\* The cells of a square matrix of n columns.
Cells(n) == (1..n) \X (1..n)

\* The p-value matrices corr returns: symmetric, 0 on the diagonal.
PMatrices(n) ==
    {m \in [Cells(n) -> PLevels] :
        \A c \in Cells(n) : m[c] = m[<<c[2], c[1]>>] /\ (c[1] = c[2] => m[c] = 0)}

\* np.zeros(r.shape)
Zeros(n) == [c \in Cells(n) |-> FALSE]

\* _mask_corr_significance: mask[np.where(p >= p_bound)] = True
MaskCorrSignificance(mask, p, p_bound) ==
    [c \in DOMAIN mask |-> IF p[c] >= p_bound THEN TRUE ELSE mask[c]]

\* _mask_diagonal: np.fill_diagonal(mask, True)
MaskDiagonal(mask) ==
    [c \in DOMAIN mask |-> IF c[1] = c[2] THEN TRUE ELSE mask[c]]

\* corr has returned its matrices; the caller's mask is None or a matrix.
InitMasking ==
    /\ CorrIdle
    /\ selection = NotCalled
    /\ colgrid = NotCalled
    /\ hmap = NotCalled
    /\ axes = NotCalled
    /\ extent = NotCalled
    /\ crosstab = NotCalled
    /\ wrap = NotCalled
    /\ zaric = NotCalled
    /\ \E n \in 0..MaxSide :
          \E p \in PMatrices(n),
             mask \in {MaskNone} \cup {MaskOf(m) : m \in [Cells(n) -> BOOLEAN]} :
              masking = [pc |-> "start",
                         n |-> n,
                         p |-> p,
                         mask_arg |-> mask,
                         p_bound |-> BoundNone,
                         mask_diagonal |-> FALSE,
                         mask |-> <<>>]

\* mask = np.zeros(r.shape) if mask is None else np.copy(mask)
MaskStart ==
    /\ masking.pc = "start"
    /\ masking' = [masking EXCEPT
                       !.pc = "copied",
                       !.mask = IF masking.mask_arg.given THEN masking.mask_arg.at
                                ELSE Zeros(masking.n)]
    /\ UNCHANGED <<corrVars, selection, crosstab, wrap, zaric,
                   colgrid, hmap, axes, extent>>

\* if not p_bound is None: _mask_corr_significance(mask, p, p_bound)
\* The argument p_bound is drawn where it is first read.
MaskSignificance ==
    /\ masking.pc = "copied"
    /\ \E p_bound \in {BoundNone} \cup {BoundOf(b) : b \in PLevels} :
          masking' = [masking EXCEPT
                         !.pc = "bounded",
                         !.p_bound = p_bound,
                         !.mask = IF p_bound.given
                                  THEN MaskCorrSignificance(@, masking.p, p_bound.v)
                                  ELSE @]
    /\ UNCHANGED <<corrVars, selection, crosstab, wrap, zaric,
                   colgrid, hmap, axes, extent>>

\* if mask_diagonal: _mask_diagonal(mask); the mask then goes to heatmap.
\* The argument mask_diagonal is drawn where it is first read.
MaskDiagonalStep ==
    /\ masking.pc = "bounded"
    /\ \E mask_diagonal \in BOOLEAN :
          masking' = [masking EXCEPT
                         !.pc = "done",
                         !.mask_diagonal = mask_diagonal,
                         !.mask = IF mask_diagonal THEN MaskDiagonal(@) ELSE @]
    /\ UNCHANGED <<corrVars, selection, crosstab, wrap, zaric,
                   colgrid, hmap, axes, extent>>

NextMasking == MaskStart \/ MaskSignificance \/ MaskDiagonalStep

SpecMasking == InitMasking /\ [][NextMasking]_vars

\* ------------------------------------------------------------------ ColGrid

\* The interact names map knows, and one it does not.
KnownInteracts == {"product", "zip", "comb"}
InteractNames == KnownInteracts \cup {"pairs"}

\* An optional argument: None or a value; empty stands in the place of the
\* value of an argument that is None.
ArgAbsent(empty) == [given |-> FALSE, v |-> empty]
ArgGiven(v) == [given |-> TRUE, v |-> v]

\* The column lists of up to MaxGridCols names.
ColLists == {[i \in 1..n |-> ColNames[i]] : n \in 0..MaxGridCols}

\* The entry of y_cols when the argument is None.
NoColumn == "<None>"

\* The values of col_wrap that are passed.
ColWraps == {1, 2}

\* No ColGrid has been constructed.
InitColGrid ==
    /\ CorrIdle
    /\ selection = NotCalled
    /\ hmap = NotCalled
    /\ axes = NotCalled
    /\ extent = NotCalled
    /\ crosstab = NotCalled
    /\ wrap = NotCalled
    /\ zaric = NotCalled
    /\ masking = NotCalled
    /\ colgrid = [pc |-> "idle", x_cols |-> <<>>, y_cols |-> <<>>, interact |-> "",
                  col_wrap |-> 0, num_plots |-> 0, num_rows |-> 0,
                  raised |-> "", raised_in |-> ""]

\* ColGrid(data, x_cols, y_cols, interact, col_wrap)
ColGridInit ==
    /\ colgrid.pc = "idle"
    /\ \E x_cols \in ColLists,
          y_cols \in {ArgAbsent(<<>>)} \cup {ArgGiven(l) : l \in ColLists},
          interact \in InteractNames,
          col_wrap \in {ArgAbsent(0)} \cup {ArgGiven(c) : c \in ColWraps} :
          IF interact = "comb" /\ y_cols.given
          THEN colgrid' = [colgrid EXCEPT
                              !.pc = "raised",
                              !.raised = "ValueError",
                              !.raised_in = "__init__"]
          ELSE LET self_y_cols == IF y_cols.given THEN y_cols.v ELSE <<NoColumn>>
               IN  colgrid' = [colgrid EXCEPT
                              !.pc = "constructed",
                              !.x_cols = x_cols,
                              !.y_cols = self_y_cols,
                              !.interact = interact,
                              !.col_wrap = IF col_wrap.given THEN col_wrap.v
                                           ELSE IF 4 < Len(x_cols) * Len(self_y_cols)
                                           THEN 4 ELSE Len(x_cols) * Len(self_y_cols)]
    /\ UNCHANGED <<corrVars, selection, crosstab, wrap, zaric, masking,
                   hmap, axes, extent>>

\* The number of plots map lays out; for 'comb' the quotient of factorials,
\* which math.factorial refuses for fewer than two columns.
NumPlots(interact, x_cols, y_cols) ==
    IF interact = "product" THEN Len(x_cols) * Len(y_cols)
    ELSE IF interact = "zip"
    THEN (IF Len(x_cols) < Len(y_cols) THEN Len(x_cols) ELSE Len(y_cols))
    ELSE (Len(x_cols) * (Len(x_cols) - 1)) \div 2

\* ColGrid.map(func): the layout of the grid, or the exception.
ColGridMap ==
    /\ colgrid.pc = "constructed"
    /\ LET num_plots == NumPlots(colgrid.interact, colgrid.x_cols, colgrid.y_cols)
       IN  IF colgrid.interact \notin KnownInteracts
           THEN colgrid' = [colgrid EXCEPT !.pc = "raised", !.raised = "ValueError",
                                           !.raised_in = "map"]
           ELSE IF colgrid.interact = "comb" /\ Len(colgrid.x_cols) < 2
           THEN colgrid' = [colgrid EXCEPT !.pc = "raised", !.raised = "ValueError",
                                           !.raised_in = "math.factorial"]
           ELSE IF colgrid.col_wrap = 0
           THEN colgrid' = [colgrid EXCEPT !.pc = "raised",
                                           !.raised = "ZeroDivisionError",
                                           !.raised_in = "map"]
           ELSE colgrid' = [colgrid EXCEPT
                               !.pc = "mapped",
                               !.num_plots = num_plots,
                               !.num_rows = (num_plots + colgrid.col_wrap - 1)
                                                \div colgrid.col_wrap]
    /\ UNCHANGED <<corrVars, selection, crosstab, wrap, zaric, masking,
                   hmap, axes, extent>>

NextColGrid == ColGridInit \/ ColGridMap

SpecColGrid == InitColGrid /\ [][NextColGrid]_vars

\* ------------------------------------------------------------------ heatmap

\* The map types heatmap draws, and one it does not.
KnownMapTypes == {"zaric", "standard", "dendrograms"}
MapTypes == KnownMapTypes \cup {"contour"}

\* The orders a clustering can return for n rows or columns.
Reorderings(n) ==
    {p \in [1..n -> 1..n] : \A i, j \in 1..n : i # j => p[i] # p[j]}

\* The order of n rows or columns as passed.
AsPassed(n) == [i \in 1..n |-> i]

\* a[ind]: the entries of a in the order ind; None stays None.
Reindexed(a, ind) == IF a = <<>> THEN <<>> ELSE [i \in 1..Len(ind) |-> a[ind[i]]]

\* A dispatch that falls back to the standard heatmap.
RendererOrStandard(map_type) ==
    IF map_type = "zaric" THEN "_zaric_heatmap"
    ELSE IF map_type = "dendrograms" THEN "sns.clustermap"
    ELSE "sns.heatmap"

\* The renderer that draws the given map type; "" when there is none.
Renderer(map_type) ==
    IF map_type = "zaric" THEN "_zaric_heatmap"
    ELSE IF map_type = "standard" THEN "sns.heatmap"
    ELSE IF map_type = "dendrograms" THEN "sns.clustermap"
    ELSE ""

\* heatmap has not been called.
InitHeatmap ==
    /\ CorrIdle
    /\ selection = NotCalled
    /\ colgrid = NotCalled
    /\ axes = NotCalled
    /\ extent = NotCalled
    /\ crosstab = NotCalled
    /\ wrap = NotCalled
    /\ zaric = NotCalled
    /\ masking = NotCalled
    /\ hmap = [pc |-> "idle", map_type |-> "", ax_given |-> FALSE, ax |-> "",
               row_cluster |-> FALSE, col_cluster |-> FALSE,
               index |-> <<>>, columns |-> <<>>,
               mask_rows |-> <<>>, mask_cols |-> <<>>,
               types_rows |-> <<>>, types_cols |-> <<>>,
               drawn |-> "", raised |-> ""]

\* heatmap(df, corr_types, map_type, ax, mask, row_cluster, col_cluster): the
\* check of ax against map_type and the conversion of mask and corr_types.
HeatmapValidate ==
    /\ hmap.pc = "idle"
    /\ \E map_type \in MapTypes, ax_given \in BOOLEAN,
          n_rows \in 1..MaxSide, n_cols \in 1..MaxSide,
          mask_given \in BOOLEAN, types_given \in BOOLEAN,
          row_cluster \in BOOLEAN, col_cluster \in BOOLEAN :
          LET called == [hmap EXCEPT
                            !.map_type = map_type,
                            !.ax_given = ax_given,
                            !.ax = IF ax_given THEN "ax" ELSE "",
                            !.row_cluster = row_cluster,
                            !.col_cluster = col_cluster,
                            !.index = AsPassed(n_rows),
                            !.columns = AsPassed(n_cols),
                            !.mask_rows = IF mask_given THEN AsPassed(n_rows) ELSE <<>>,
                            !.mask_cols = IF mask_given THEN AsPassed(n_cols) ELSE <<>>,
                            !.types_rows = IF types_given THEN AsPassed(n_rows) ELSE <<>>,
                            !.types_cols = IF types_given THEN AsPassed(n_cols) ELSE <<>>]
          IN  IF map_type = "dendrograms"
              THEN IF ax_given
                   THEN hmap' = [called EXCEPT !.pc = "raised", !.raised = "ValueError"]
                   ELSE hmap' = [called EXCEPT !.pc = "validated"]
              ELSE hmap' = [called EXCEPT
                               !.pc = "validated",
                               !.ax = IF ax_given THEN "ax" ELSE "plt.gca()"]
    /\ UNCHANGED <<corrVars, selection, crosstab, wrap, zaric, masking,
                   colgrid, axes, extent>>

\* The rows of df, mask and corr_types put in the order of the clustering.
HeatmapRowCluster ==
    /\ hmap.pc = "validated"
    /\ IF hmap.row_cluster /\ hmap.map_type # "dendrograms"
       THEN \E row_ind \in Reorderings(Len(hmap.index)) :
               hmap' = [hmap EXCEPT
                           !.pc = "rows",
                           !.index = Reindexed(hmap.index, row_ind),
                           !.mask_rows = Reindexed(hmap.mask_rows, row_ind),
                           !.types_rows = Reindexed(hmap.types_rows, row_ind)]
       ELSE hmap' = [hmap EXCEPT !.pc = "rows"]
    /\ UNCHANGED <<corrVars, selection, crosstab, wrap, zaric, masking,
                   colgrid, axes, extent>>

\* The columns of df, mask and corr_types put in the order of the clustering.
HeatmapColCluster ==
    /\ hmap.pc = "rows"
    /\ IF hmap.col_cluster /\ hmap.map_type # "dendrograms"
       THEN \E col_ind \in Reorderings(Len(hmap.columns)) :
               hmap' = [hmap EXCEPT
                           !.pc = "cols",
                           !.columns = Reindexed(hmap.columns, col_ind),
                           !.mask_cols = Reindexed(hmap.mask_cols, col_ind),
                           !.types_cols = Reindexed(hmap.types_cols, col_ind)]
       ELSE hmap' = [hmap EXCEPT !.pc = "cols"]
    /\ UNCHANGED <<corrVars, selection, crosstab, wrap, zaric, masking,
                   colgrid, axes, extent>>

\* The dispatch on map_type: one renderer draws, or ValueError.
HeatmapDraw ==
    /\ hmap.pc = "cols"
    /\ IF Renderer(hmap.map_type) = ""
       THEN hmap' = [hmap EXCEPT !.pc = "raised", !.raised = "ValueError"]
       ELSE hmap' = [hmap EXCEPT
                        !.pc = "done",
                        !.drawn = Renderer(hmap.map_type),
                        !.ax = IF hmap.ax = "" THEN "plt.gcf().axes[2]" ELSE hmap.ax]
    /\ UNCHANGED <<corrVars, selection, crosstab, wrap, zaric, masking,
                   colgrid, axes, extent>>

NextHeatmap ==
    \/ HeatmapValidate
    \/ HeatmapRowCluster
    \/ HeatmapColCluster
    \/ HeatmapDraw

SpecHeatmap == InitHeatmap /\ [][NextHeatmap]_vars

\* ------------------------------------------- _zaric_heatmap, the axis labels

\* One iteration of the loop of _zaric_wrap_custom on the state w.
WrapIteration(w) ==
    LET c == w.source_text[w.char_index + 1]
        a == [w EXCEPT
                 !.latest_separator = IF c \in w.separator_chars
                                      THEN w.char_index ELSE @,
                 !.output = Append(@, c),
                 !.current_length = @ + 1]
        cutting_length == CuttingLength(a.char_index, a.latest_separator,
                                        a.keep_separators)
    IN  IF a.current_length # a.width
        THEN [a EXCEPT !.char_index = @ + 1]
        ELSE IF a.latest_separator >= a.current_chunk_start
        THEN [a EXCEPT
                 !.output = Append(IF cutting_length # 0
                                   THEN DropLast(a.output, cutting_length)
                                   ELSE a.output, Newline),
                 !.current_chunk_start = a.latest_separator + 1,
                 !.char_index = a.latest_separator + 1,
                 !.current_length = 0]
        ELSE [a EXCEPT
                 !.output = Append(@, Newline),
                 !.current_chunk_start = a.char_index + 1,
                 !.latest_separator = a.char_index,
                 !.char_index = @ + 1,
                 !.current_length = 0]

\* The loop of _zaric_wrap_custom from the state w to its return value.
RECURSIVE WrapLoop(_)
WrapLoop(w) ==
    IF w.char_index < Len(w.source_text) THEN WrapLoop(WrapIteration(w))
    ELSE w.output

\* do_wrapping(label, length): the wrap at '_' and '-' that keeps them.
DoWrapping(label, length) ==
    WrapLoop([pc |-> "loop",
              source_text |-> label,
              separator_chars |-> SeparatorChars,
              width |-> length,
              keep_separators |-> TRUE,
              current_length |-> 0,
              latest_separator |-> -1,
              current_chunk_start |-> 0,
              output |-> <<>>,
              char_index |-> 0])

\* The code point of a character of a label.
CodePoint(c) ==
    CASE c = "-" -> 45
      [] c = "_" -> 95
      [] c = "a" -> 97
      [] c = "b" -> 98

\* s < t for two strings.
StrLess(s, t) ==
    \E k \in 1..(Len(t)) :
        /\ k <= Len(s) + 1
        /\ \A i \in 1..(k - 1) : s[i] = t[i]
        /\ k <= Len(s) => CodePoint(s[k]) < CodePoint(t[k])

\* sorted(S)
RECURSIVE Sorted(_)
Sorted(S) ==
    IF S = {} THEN <<>>
    ELSE LET least == CHOOSE m \in S : \A t \in S \ {m} : StrLess(m, t)
         IN  <<least>> \o Sorted(S \ {least})

\* l[::-1]
Reversed(l) == [i \in 1..Len(l) |-> l[Len(l) + 1 - i]]

\* The labels of the cells and of the orders.
AxisLabels == {<<"a">>, <<"a", "b">>, <<"a", "_", "b">>}

\* The orders that are passed: each label once.
AxisOrders ==
    {o \in [1..Cardinality(AxisLabels) -> AxisLabels] :
        \A i, j \in DOMAIN o : i # j => o[i] # o[j]}

\* The widths the labels are wrapped to.
AxisWraps == {1, 2}

\* The labels of the x axis before the wrap, from tick 0 on.
XNames(x_in, x_order) ==
    IF ~x_order.given THEN Reversed(Sorted(Listed(x_in))) ELSE x_order.v

\* The labels of the y axis as listed by the caller.
YNamesAsGiven(y_in, y_order) ==
    IF ~y_order.given THEN Sorted(Listed(y_in)) ELSE y_order.v

\* The labels of the y axis before the wrap, from tick 0 on.
YNames(y_in, y_order) ==
    IF ~y_order.given THEN Sorted(Listed(y_in)) ELSE Reversed(y_order.v)

\* names with every label wrapped.
WrappedAll(names, length) == [i \in DOMAIN names |-> DoWrapping(names[i], length)]

\* to_num[name] for the dictionary made of enumerate(names): the last place
\* of the name, counted from 0.
ToNum(names, name) ==
    (CHOOSE i \in DOMAIN names :
        /\ names[i] = name
        /\ \A j \in DOMAIN names : names[j] = name => j <= i) - 1

\* _zaric_heatmap(y, x, x_order, y_order, wrap_x, wrap_y) at its first statement.
InitAxes ==
    /\ CorrIdle
    /\ selection = NotCalled
    /\ colgrid = NotCalled
    /\ hmap = NotCalled
    /\ extent = NotCalled
    /\ crosstab = NotCalled
    /\ wrap = NotCalled
    /\ zaric = NotCalled
    /\ masking = NotCalled
    /\ \E n \in 1..MaxAxisCells :
       \E y_in \in [1..n -> AxisLabels], x_in \in [1..n -> AxisLabels],
          x_order \in {ArgAbsent(<<>>)} \cup {ArgGiven(o) : o \in AxisOrders},
          y_order \in {ArgAbsent(<<>>)} \cup {ArgGiven(o) : o \in AxisOrders},
          wrap_x \in AxisWraps, wrap_y \in AxisWraps :
          axes = [pc |-> "labels", y |-> y_in, x |-> x_in,
                  x_order |-> x_order, y_order |-> y_order,
                  wrap_x |-> wrap_x, wrap_y |-> wrap_y,
                  x_names |-> <<>>, y_names |-> <<>>,
                  index |-> 0, placed |-> <<>>]

\* The labels of both axes, wrapped, in the order of their ticks.
AxesLabels ==
    /\ axes.pc = "labels"
    /\ axes' = [axes EXCEPT
                   !.pc = "cells",
                   !.x_names = WrappedAll(XNames(axes.x, axes.x_order), axes.wrap_x),
                   !.y_names = WrappedAll(YNames(axes.y, axes.y_order), axes.wrap_y)]
    /\ UNCHANGED <<corrVars, selection, crosstab, wrap, zaric, masking,
                   colgrid, hmap, extent>>

\* The next cell: the ticks its shape is centred on.
AxesCell ==
    /\ axes.pc = "cells"
    /\ axes.index < Len(axes.x)
    /\ LET wrapped_x_name == DoWrapping(axes.x[axes.index + 1], axes.wrap_x)
           wrapped_y_name == DoWrapping(axes.y[axes.index + 1], axes.wrap_y)
       IN  axes' = [axes EXCEPT
                       !.placed = Append(@, [x |-> ToNum(axes.x_names, wrapped_x_name),
                                             y |-> ToNum(axes.y_names, wrapped_y_name)]),
                       !.index = @ + 1]
    /\ UNCHANGED <<corrVars, selection, crosstab, wrap, zaric, masking,
                   colgrid, hmap, extent>>

AxesReturn ==
    /\ axes.pc = "cells"
    /\ axes.index >= Len(axes.x)
    /\ axes' = [axes EXCEPT !.pc = "done"]
    /\ UNCHANGED <<corrVars, selection, crosstab, wrap, zaric, masking,
                   colgrid, hmap, extent>>

NextAxes == AxesLabels \/ AxesCell \/ AxesReturn

SpecAxes == InitAxes /\ [][NextAxes]_vars

\* ------------------------------------------ _zaric_heatmap, the cell extent

\* np.round(p / q, 0) for p >= 0 and q > 0: a half goes to the even neighbour.
RoundHalfEven(p, q) ==
    LET below == p \div q
        rest == p % q
    IN  IF 2 * rest < q THEN below
        ELSE IF 2 * rest > q THEN below + 1
        ELSE IF below % 2 = 0 THEN below
        ELSE below + 1

\* The pixels at which the slot of a cell begins.
BeforePixels == {0, 1}

\* The axes of the pixel arrays: 0 across, 1 up.
PixelAxes == {0, 1}

\* One axis of one cell at the statement that rounds its corners: the slot
\* spans delta_in_pix pixels and the normalized size is
\* fraction / FractionSteps.
InitExtent ==
    /\ CorrIdle
    /\ selection = NotCalled
    /\ colgrid = NotCalled
    /\ hmap = NotCalled
    /\ axes = NotCalled
    /\ crosstab = NotCalled
    /\ wrap = NotCalled
    /\ zaric = NotCalled
    /\ masking = NotCalled
    /\ \E axis \in PixelAxes, before_pixels \in BeforePixels,
          delta_in_pix \in 1..MaxDelta, fraction \in 0..FractionSteps :
          extent = [pc |-> "gap", axis |-> axis,
                    before_pixels |-> before_pixels,
                    after_pixels |-> before_pixels + delta_in_pix,
                    delta_in_pix |-> delta_in_pix,
                    fraction |-> fraction,
                    gap |-> 0, start |-> 0, ending |-> 0]

\* gap = np.round((1.0 - desired_fraction) * delta_in_pix / 2, 0)
ExtentGap ==
    /\ extent.pc = "gap"
    /\ extent' = [extent EXCEPT
                     !.pc = "guard",
                     !.gap = RoundHalfEven((FractionSteps - extent.fraction)
                                               * extent.delta_in_pix,
                                           2 * FractionSteps)]
    /\ UNCHANGED <<corrVars, selection, crosstab, wrap, zaric, masking,
                   colgrid, hmap, axes>>

\* gap[np.where(delta_in_pix - gap*2 < 3)] -= 3
ExtentGuard ==
    /\ extent.pc = "guard"
    /\ extent' = [extent EXCEPT
                     !.pc = "edges",
                     !.gap = IF extent.delta_in_pix - extent.gap * 2 < 3
                             THEN @ - 3 ELSE @]
    /\ UNCHANGED <<corrVars, selection, crosstab, wrap, zaric, masking,
                   colgrid, hmap, axes>>

\* start and ending, moved one pixel in at the left and at the top.
ExtentEdges ==
    /\ extent.pc = "edges"
    /\ extent' = [extent EXCEPT
                     !.pc = "done",
                     !.start = extent.before_pixels + extent.gap
                                  + (IF extent.axis = 0 THEN 1 ELSE 0),
                     !.ending = extent.after_pixels - extent.gap
                                  - (IF extent.axis = 1 THEN 1 ELSE 0)]
    /\ UNCHANGED <<corrVars, selection, crosstab, wrap, zaric, masking,
                   colgrid, hmap, axes>>

NextExtent == ExtentGap \/ ExtentGuard \/ ExtentEdges

SpecExtent == InitExtent /\ [][NextExtent]_vars

\* ------------------------------------------------------- selection properties

\* The names of the columns of table t stored with the given type.
Stored(t, dtype) == {t[i].name : i \in {j \in DOMAIN t : t[j].dtype = dtype}}

\* C12 as stated: with categorical_inputs and numeric_inputs both left
\* unspecified both partitions are inferred from the storage types, so that
\* the columns of categorical storage type are among the selected columns,
\* as categorical ones.
C12_BothUnspecifiedInfersBoth ==
    (/\ selection.pc = "done"
     /\ selection.categorical_inputs = ArgNone
     /\ selection.numeric_inputs = ArgNone) =>
        /\ selection.out.categorical_inputs = Stored(selection.df, "object")
        /\ selection.out.numeric_inputs = Stored(selection.df, "float")
        /\ Stored(selection.df, "object") \subseteq Listed(selection.out.df_sel)

\* C12, amended: both partitions are inferred from the storage types when
\* categorical_inputs is 'auto' and numeric_inputs is left unspecified (or
\* 'auto'), and then every column is selected, those of categorical storage
\* type as categorical ones; with categorical_inputs left unspecified too
\* there are no categorical columns, only the numeric partition is inferred
\* and the columns of categorical storage type are not selected.
C12_AutoInfersBoth ==
    selection.pc = "done" =>
        LET t == selection.df
            out == selection.out
        IN  /\ (/\ selection.categorical_inputs = ArgAuto
                /\ selection.numeric_inputs \in {ArgNone, ArgAuto}) =>
                  /\ out.categorical_inputs = Stored(t, "object")
                  /\ out.numeric_inputs = Stored(t, "float")
                  /\ Listed(out.df_sel) = ColumnNames(t)
            /\ (/\ selection.categorical_inputs = ArgNone
                /\ selection.numeric_inputs \in {ArgNone, ArgAuto}) =>
                  /\ out.categorical_inputs = {}
                  /\ out.numeric_inputs = Stored(t, "float")
                  /\ Listed(out.df_sel) = Stored(t, "float")

\* Both arguments left unspecified on a table with columns of both types.
C12_Witness ==
    /\ selection.pc = "done"
    /\ selection.categorical_inputs = ArgNone
    /\ selection.numeric_inputs = ArgNone
    /\ Len(selection.df) = 3
    /\ selection.df[1].dtype = "float"
    /\ selection.df[2].dtype = "object"
    /\ selection.out.df_sel = <<"A", "C">>

\* C13: the three frames corr returns are square and have as row and as
\* column labels exactly the table columns that are in the resolved
\* categorical or the resolved numeric set: a table column in neither set
\* labels no row or column, and neither does a listed name that is no
\* column of the table.
C13_FramesIndexedBySelection ==
    pc # "idle" =>
        LET S == ColumnNames(df) \cap (categorical_inputs \cup numeric_inputs)
        IN  /\ Listed(df_sel) = S
            /\ \A frame \in {df_r, df_p, df_ct} :
                  /\ DOMAIN frame = S
                  /\ \A row \in DOMAIN frame : DOMAIN frame[row] = S
                  /\ \A c \in ColumnNames(df) :
                        c \notin (categorical_inputs \cup numeric_inputs) =>
                            /\ c \notin DOMAIN frame
                            /\ \A row \in DOMAIN frame : c \notin DOMAIN frame[row]
                  /\ \A c \in (categorical_inputs \cup numeric_inputs) \ ColumnNames(df) :
                        /\ c \notin DOMAIN frame
                        /\ \A row \in DOMAIN frame : c \notin DOMAIN frame[row]

\* Column B is in neither list and the numeric list names a foreign column.
C13_Witness ==
    /\ pc = "done"
    /\ Len(df) = 3
    /\ categorical_inputs = {"C"}
    /\ numeric_inputs = {"A", ForeignName}
    /\ DOMAIN df_r = {"A", "C"}
    /\ df_ct["A"]["C"].w = 1

\* The non-finite values of a numeric column.
NonFinite == {"nan", "inf", "-inf"}

\* The sequence the last iteration made of column c.
LastSeq(c) == IF LastPair[1] = c THEN x ELSE y

\* The other column of the last pair.
Partner(c) == IF LastPair[1] = c THEN LastPair[2] ELSE LastPair[1]

\* C14: a column named in both categorical_inputs and numeric_inputs is
\* processed as numeric in every pair it is part of: its invalid values are
\* the non-finite ones, the pair is tagged num_vs_num, num_vs_cat or
\* cat_vs_num and its association is the correlation or the correlation
\* ratio, never cat_vs_cat with an uncertainty coefficient.
C14_ListedInBothIsNumeric ==
    \A c \in (categorical_inputs \cap numeric_inputs) \cap Sel :
        /\ \A o \in Sel \ {c} :
              /\ df_ct[c][o].v \in {Const("0.0"), Const("num_vs_num"),
                                    Const("num_vs_cat"), Const("cat_vs_num")}
              /\ df_r[c][o].v.fn \in {"1.0", "corr_method.r", "correlation_ratio"}
              /\ pc = "done" =>
                    /\ df_ct[c][o].v # Const("0.0")
                    /\ df_ct[o][c].v = df_ct[c][o].v
                    /\ df_r[c][o].v.fn # "1.0"
        /\ (PairDone /\ c \in {LastPair[1], LastPair[2]}) =>
              LET vals == Column(df, c).vals
                  other == Column(df, Partner(c)).vals
                  kept == {i \in DOMAIN vals :
                              /\ vals[i] \notin NonFinite
                              /\ ~InvalidCell(other[i], Numeric(Partner(c)))}
              IN  /\ nan_strategy = "mask" =>
                        /\ Len(LastSeq(c)) = Cardinality(kept)
                        /\ \A k \in DOMAIN LastSeq(c) : LastSeq(c)[k] \notin NonFinite
                  /\ nan_strategy = "replace" =>
                        /\ Len(LastSeq(c)) = Len(vals)
                        /\ \A i \in DOMAIN vals :
                              LastSeq(c)[i] = IF vals[i] \in NonFinite
                                              THEN nan_replace_value ELSE vals[i]

\* Column A = [1, inf, 2] is listed in both, its partner is categorical: the
\* row of the infinity is masked and the pair is tagged num_vs_cat.
C14_Witness ==
    /\ pc = "done"
    /\ nan_strategy = "mask"
    /\ df_sel = <<"A", "B">>
    /\ "A" \in categorical_inputs \cap numeric_inputs
    /\ "B" \in categorical_inputs \ numeric_inputs
    /\ Column(df, "A").vals = <<"1.0", "inf", "2.0">>
    /\ Column(df, "B").vals = <<"y", "nan", "y">>
    /\ x = <<"1.0", "2.0">>
    /\ df_ct["A"]["B"].v = Const("num_vs_cat")

\* ------------------------------------------------------- crosstab properties

\* The sum of the cells of a table.
RECURSIVE SumOver(_, _)
SumOver(f, S) ==
    IF S = {} THEN 0
    ELSE LET e == CHOOSE e \in S : TRUE IN f[e] + SumOver(f, S \ {e})

CellSum(tab) ==
    SumOver([a \in Listed(tab.index) |->
                SumOver([b \in Listed(tab.columns) |-> tab.cm[a][b]], Listed(tab.columns))],
            Listed(tab.index))

\* C15: a cell (a, b) of numpy_crosstab(x, y) holds the number of input rows
\* whose x entry casts to a and whose y entry casts to b; so with
\* dropna=False and shownan=False the cells add up to the number of rows
\* less the rows where x or y is a missing marker; and x = [a, b, a],
\* y = [p, p, q] gives a/p = 1, a/q = 1, b/p = 1, b/q = 0.
C15_CellsCountRows ==
    (crosstab.pc = "done" /\ crosstab.fn = "numpy_crosstab") =>
        LET tab == crosstab.tab
            xs == crosstab.x
            ys == crosstab.y
        IN  /\ \A a \in Listed(tab.index), b \in Listed(tab.columns) :
                  tab.cm[a][b] = Cardinality({i \in DOMAIN xs :
                                     AsStr(xs[i]) = a /\ AsStr(ys[i]) = b})
            /\ (~crosstab.dropna /\ ~crosstab.shownan) =>
                  CellSum(tab) = Len(xs) - Cardinality({i \in DOMAIN xs :
                                     EntryIsNull(xs[i]) \/ EntryIsNull(ys[i])})
            /\ (/\ xs = <<Text("a"), Text("b"), Text("a")>>
                /\ ys = <<Text("p"), Text("p"), Text("q")>>) =>
                  /\ tab.index = <<"a", "b">> /\ tab.columns = <<"p", "q">>
                  /\ tab.cm["a"]["p"] = 1 /\ tab.cm["a"]["q"] = 1
                  /\ tab.cm["b"]["p"] = 1 /\ tab.cm["b"]["q"] = 0

\* The position of a label in the sorted order.
Rank(l) == CHOOSE k \in DOMAIN Collation : Collation[k] = l

\* labels lists each member of S once, in sorted order.
ListsSorted(labels, S) ==
    /\ Listed(labels) = S
    /\ \A i, j \in DOMAIN labels : i < j => Rank(labels[i]) < Rank(labels[j])

\* The labels an axis shows of the values S cast from a series.
Shown(S, shownan) == IF shownan THEN S ELSE S \ {"nan"}

\* C16 as stated: the row labels are the distinct values cast from the
\* entries of x and the column labels those cast from the entries of y, each
\* once and sorted, without the label "nan" when shownan=False and with it
\* when shownan=True.
C16_LabelsOfAllEntries ==
    (crosstab.pc = "done" /\ crosstab.fn = "numpy_crosstab") =>
        /\ ListsSorted(crosstab.tab.index,
                       Shown({AsStr(crosstab.x[i]) : i \in DOMAIN crosstab.x},
                             crosstab.shownan))
        /\ ListsSorted(crosstab.tab.columns,
                       Shown({AsStr(crosstab.y[i]) : i \in DOMAIN crosstab.y},
                             crosstab.shownan))

\* C16, amended: the labels are the distinct values cast from the entries of
\* the rows that are counted, which are all rows with dropna=False and the
\* rows where neither x nor y is missing with dropna=True; each label is
\* listed once, in sorted order, "nan" is left out when shownan=False and
\* kept when shownan=True.
C16_LabelsOfCountedEntries ==
    (crosstab.pc = "done" /\ crosstab.fn = "numpy_crosstab") =>
        LET counted == IF crosstab.dropna
                       THEN {i \in DOMAIN crosstab.x :
                                /\ crosstab.x[i] \notin {NaN, None}
                                /\ crosstab.y[i] \notin {NaN, None}}
                       ELSE DOMAIN crosstab.x
        IN  /\ ListsSorted(crosstab.tab.index,
                           Shown({AsStr(crosstab.x[i]) : i \in counted}, crosstab.shownan))
            /\ ListsSorted(crosstab.tab.columns,
                           Shown({AsStr(crosstab.y[i]) : i \in counted}, crosstab.shownan))

\* Both series hold a NaN, all rows are counted and "nan" is not shown.
C16_Witness ==
    /\ crosstab.pc = "done"
    /\ crosstab.fn = "numpy_crosstab"
    /\ ~crosstab.dropna /\ ~crosstab.shownan
    /\ crosstab.x = <<Text("b"), NaN, Text("a")>>
    /\ crosstab.y = <<NaN, Text("p"), Text("p")>>
    /\ crosstab.tab.index = <<"a", "b">>
    /\ crosstab.tab.columns = <<"p">>

\* C17: crosstab_plot(x, y, data, dropna, shownan), normalize left at its
\* default, ends without an exception and returns the table numpy_crosstab
\* returns for the same two series, dropna and shownan.
C17_PlotReturnsCrosstab ==
    (crosstab.pc # "idle" /\ crosstab.fn = "crosstab_plot") =>
        /\ crosstab.pc = "done"
        /\ crosstab.raised = ""
        /\ crosstab.tab = NumpyCrosstab(crosstab.x, crosstab.y,
                                        crosstab.dropna, crosstab.shownan)

\* ----------------------------------------------------------- wrap properties

\* The text without its newlines.
Unwrapped(text) == SelectSeq(text, LAMBDA c : c # Newline)

\* The line that the newline at position i of the text ends.
LineEndedAt(text, i) ==
    LET before == {j \in 1..(i - 1) : text[j] = Newline}
        start == IF before = {} THEN 1
                 ELSE (CHOOSE j \in before : \A k \in before : k <= j) + 1
    IN  SubSeq(text, start, i - 1)

\* C18: for a label without newlines and a width of at least 1 the wrap
\* that keeps the separators only inserts newlines, that is, the result
\* without its newlines is the source; and a chunk of width characters
\* without a separator is followed by a newline right after its width
\* characters.
C18_WrapOnlyInsertsNewlines ==
    (wrap.pc # "idle" /\ wrap.keep_separators) =>
        /\ Unwrapped(wrap.output) = SubSeq(wrap.source_text, 1, wrap.char_index)
        /\ wrap.pc = "done" => Unwrapped(wrap.output) = wrap.source_text
        /\ \A i \in DOMAIN wrap.output :
              (/\ wrap.output[i] = Newline
               /\ \A k \in DOMAIN LineEndedAt(wrap.output, i) :
                     LineEndedAt(wrap.output, i)[k] \notin SeparatorChars) =>
                  Len(LineEndedAt(wrap.output, i)) = wrap.width
        /\ \A i \in DOMAIN wrap.output :
              (/\ i + wrap.width - 1 <= Len(wrap.output)
               /\ (i = 1 \/ wrap.output[i - 1] = Newline)
               /\ \A k \in i..(i + wrap.width - 1) :
                     wrap.output[k] \notin SeparatorChars \cup {Newline}) =>
                  /\ i + wrap.width <= Len(wrap.output)
                  /\ wrap.output[i + wrap.width] = Newline

\* A hard cut after two characters, then a cut at the separator.
C18_Witness ==
    /\ wrap.pc = "done"
    /\ wrap.keep_separators
    /\ wrap.width = 2
    /\ wrap.source_text = <<"a", "b", "_", "a">>
    /\ wrap.output = <<"a", "b", Newline, "_", Newline, "a">>

\* ------------------------------------------------------- renderer properties

\* The cells, counted from 0, that are to be drawn.
Visible ==
    {i \in 0..(Len(zaric.size) - 1) :
        /\ zaric.size[i + 1] # 0
        /\ zaric.color[i + 1] # "nan"
        /\ ~(zaric.mask.given /\ zaric.mask.at[i + 1])}

\* C19: the collection the renderer draws holds one shape for each cell
\* whose size is not 0, whose color is not NaN and whose mask entry is not
\* set, and for no other cell, in the order of the cells; a cell failing
\* any one of the three tests has no shape; the k-th color of the
\* collection is the color of the cell the k-th shape was built from.
C19_ShapesOfVisibleCells ==
    zaric.pc = "done" =>
        LET shapes == zaric.collection.shapes
            array == zaric.collection.array
        IN  /\ {shapes[k].cell : k \in DOMAIN shapes} = Visible
            /\ Len(shapes) = Cardinality(Visible)
            /\ \A j, k \in DOMAIN shapes : j < k => shapes[j].cell < shapes[k].cell
            /\ \A i \in 0..(Len(zaric.size) - 1) :
                  /\ zaric.size[i + 1] = 0 => \A k \in DOMAIN shapes : shapes[k].cell # i
                  /\ zaric.color[i + 1] = "nan" => \A k \in DOMAIN shapes : shapes[k].cell # i
                  /\ (zaric.mask.given /\ zaric.mask.at[i + 1]) =>
                        \A k \in DOMAIN shapes : shapes[k].cell # i
            /\ DOMAIN array = DOMAIN shapes
            /\ \A k \in DOMAIN shapes : array[k] = zaric.color[shapes[k].cell + 1]

\* Three cells, the middle one masked and nothing else wrong with it.
C19_Witness ==
    /\ zaric.pc = "done"
    /\ zaric.size = <<1, 1, 1>>
    /\ zaric.color = <<"0.5", "0.5", "-0.2">>
    /\ zaric.mask = MaskOf(<<FALSE, TRUE, FALSE>>)
    /\ zaric.patch_col_ind = <<0, 2>>
    /\ zaric.collection.array = <<"0.5", "-0.2">>

\* ---------------------------------------------------------- mask properties

\* The mask corr_heatmap starts from: the caller's, or all cells visible.
StartMask ==
    IF masking.mask_arg.given THEN masking.mask_arg.at
    ELSE [c \in Cells(masking.n) |-> FALSE]

\* C20: the mask corr_heatmap hands to the renderer is the caller's mask (all
\* cells visible if there is none) with, when p_bound is given, exactly the
\* cells whose p-value exceeds p_bound masked in addition and, when
\* mask_diagonal is true, the diagonal cells masked in addition; no other
\* cell differs from the mask it started from.
C20_MaskBuilt ==
    masking.pc = "done" =>
        /\ DOMAIN masking.mask = Cells(masking.n)
        /\ \A c \in Cells(masking.n) :
              masking.mask[c] =
                  (\/ StartMask[c]
                   \/ masking.p_bound.given /\ masking.p[c] > masking.p_bound.v
                   \/ masking.mask_diagonal /\ c[1] = c[2])

\* ------------------------------------------------------- ColGrid properties

\* C21: the constructor of ColGrid raises ValueError for interact='comb'
\* together with a y_cols that is not None, and it raises ValueError for an
\* interact name other than 'product', 'zip' and 'comb', so that no ColGrid
\* object holds an interact name map does not know.
C21_InteractValidatedAtConstruction ==
    /\ colgrid.pc \in {"constructed", "mapped"} => colgrid.interact \in KnownInteracts
    /\ (colgrid.pc = "constructed" /\ colgrid.interact = "comb") =>
          colgrid.y_cols = <<NoColumn>>
    /\ (colgrid.pc = "raised" /\ colgrid.raised_in = "__init__") =>
          colgrid.raised = "ValueError"
    /\ (colgrid.pc = "raised" /\ colgrid.interact \notin KnownInteracts
            /\ colgrid.raised_in # "") => colgrid.raised_in = "__init__"

\* ------------------------------------------------------- heatmap properties

\* C22: heatmap called with a map_type other than 'zaric', 'standard' and
\* 'dendrograms' draws nothing and ends by raising ValueError, whatever the
\* other arguments; heatmap called with map_type='dendrograms' and an ax
\* raises ValueError before anything else is done.
C22_UnknownMapTypeRaises ==
    /\ (hmap.pc # "idle" /\ hmap.map_type \notin KnownMapTypes) =>
          /\ hmap.drawn = ""
          /\ hmap.pc # "done"
          /\ hmap.pc = "raised" => hmap.raised = "ValueError"
    /\ (hmap.pc # "idle" /\ hmap.map_type = "dendrograms" /\ hmap.ax_given) =>
          /\ hmap.pc = "raised"
          /\ hmap.raised = "ValueError"
          /\ hmap.drawn = ""
          /\ hmap.ax = "ax"
          /\ hmap.index = AsPassed(Len(hmap.index))
          /\ hmap.columns = AsPassed(Len(hmap.columns))

\* An unknown map type has raised after the rows were put in another order.
C22_Witness ==
    /\ hmap.pc = "raised"
    /\ hmap.map_type = "contour"
    /\ hmap.raised = "ValueError"
    /\ hmap.row_cluster
    /\ hmap.index = <<2, 1>>
    /\ hmap.ax = "plt.gca()"

\* --------------------------------------------------- axis label properties

\* The place, counted from 0, of the wrapped label in the wrapped names.
TickOf(names, label, length) == ToNum(names, DoWrapping(label, length))

\* The loop of the wrap returns what the pure form of the wrap computes.
WrapLoopAgrees ==
    wrap.pc = "done" =>
        wrap.output = WrapLoop([wrap EXCEPT !.pc = "loop", !.output = <<>>,
                                            !.char_index = 0,
                                            !.current_length = 0,
                                            !.latest_separator = -1,
                                            !.current_chunk_start = 0])

\* Without an order the row axis lists the unique row labels ascending and
\* the column axis the unique column labels descending, and every cell is
\* drawn at the ticks of its own labels.
AxesUnorderedAndCells ==
    /\ ~axes.y_order.given =>
          /\ Len(axes.y_names) = Cardinality(Listed(axes.y))
          /\ \A l \in Listed(axes.y) : \E k \in DOMAIN axes.y_names :
                axes.y_names[k] = DoWrapping(l, axes.wrap_y)
          /\ \A l, m \in Listed(axes.y) :
                StrLess(l, m) => TickOf(axes.y_names, l, axes.wrap_y)
                                    < TickOf(axes.y_names, m, axes.wrap_y)
    /\ ~axes.x_order.given =>
          /\ Len(axes.x_names) = Cardinality(Listed(axes.x))
          /\ \A l \in Listed(axes.x) : \E k \in DOMAIN axes.x_names :
                axes.x_names[k] = DoWrapping(l, axes.wrap_x)
          /\ \A l, m \in Listed(axes.x) :
                StrLess(l, m) => TickOf(axes.x_names, l, axes.wrap_x)
                                    > TickOf(axes.x_names, m, axes.wrap_x)
    /\ \A i \in DOMAIN axes.placed :
          /\ axes.x_names[axes.placed[i].x + 1] = DoWrapping(axes.x[i], axes.wrap_x)
          /\ axes.y_names[axes.placed[i].y + 1] = DoWrapping(axes.y[i], axes.wrap_y)

\* C23 as stated: with an explicit order the k-th label of the order is at
\* tick k on its axis, on the column axis and on the row axis alike; without
\* an order the row labels ascend and the column labels descend; every cell
\* is drawn at the ticks of its own row and column label.
C23_LabelsInGivenOrder ==
    axes.pc \in {"cells", "done"} =>
        /\ axes.x_order.given =>
              \A k \in DOMAIN axes.x_order.v :
                  TickOf(axes.x_names, axes.x_order.v[k], axes.wrap_x) = k - 1
        /\ axes.y_order.given =>
              \A k \in DOMAIN axes.y_order.v :
                  TickOf(axes.y_names, axes.y_order.v[k], axes.wrap_y) = k - 1
        /\ AxesUnorderedAndCells

\* C23 amended: with an explicit order the k-th label of the column order is
\* at tick k, and the k-th of the n labels of the row order is at tick n-1-k,
\* counted from 0, so that the row order is read from the top down; without
\* an order the row labels ascend and the column labels descend; every cell
\* is drawn at the ticks of its own row and column label.
C23_RowOrderReversed ==
    axes.pc \in {"cells", "done"} =>
        /\ axes.x_order.given =>
              \A k \in DOMAIN axes.x_order.v :
                  TickOf(axes.x_names, axes.x_order.v[k], axes.wrap_x) = k - 1
        /\ axes.y_order.given =>
              \A k \in DOMAIN axes.y_order.v :
                  TickOf(axes.y_names, axes.y_order.v[k], axes.wrap_y)
                      = Len(axes.y_order.v) - k
        /\ AxesUnorderedAndCells

\* A cell drawn with the row order given: its row label, the first of the
\* order, is at the last tick.
C23_Witness ==
    /\ axes.pc = "done"
    /\ axes.y_order = ArgGiven(<<<<"a", "b">>, <<"a">>, <<"a", "_", "b">>>>)
    /\ ~axes.x_order.given
    /\ axes.y = << <<"a", "b">>, <<"a">> >>
    /\ axes.x = << <<"a">>, <<"a", "_", "b">> >>
    /\ axes.wrap_x = 2
    /\ axes.placed = <<[x |-> 1, y |-> 2], [x |-> 0, y |-> 1]>>

\* ------------------------------------------------------ line width properties

\* The places of the newlines of a text, and the place after its end.
LineEnds(text) == {i \in DOMAIN text : text[i] = Newline} \cup {Len(text) + 1}

\* The number of characters of the source that come before the line which
\* ends at place i of the output.
SourceBefore(text, i) ==
    Len(Unwrapped(SubSeq(text, 1, i - 1))) - Len(LineEndedAt(text, i))

\* The places of the separators in the chunk of width characters that
\* follows the first n characters of the source.
SeparatorsInChunk(source, n, width) ==
    {k \in (n + 1)..(n + width) : k <= Len(source) /\ source[k] \in SeparatorChars}

\* C24: for every label and every width of at least 1 each line of the
\* wrap of do_wrapping has at most width characters; a line that a newline
\* ends was cut right after the last separator of its chunk of width
\* characters when the chunk has one, and after exactly width characters
\* when it has none.
C24_LinesWithinWidth ==
    (wrap.pc = "done" /\ wrap.keep_separators /\ wrap.width >= 1) =>
        /\ \A i \in LineEnds(wrap.output) :
              Len(LineEndedAt(wrap.output, i)) <= wrap.width
        /\ \A i \in LineEnds(wrap.output) \ {Len(wrap.output) + 1} :
              LET n == SourceBefore(wrap.output, i)
                  seps == SeparatorsInChunk(wrap.source_text, n, wrap.width)
                  line == LineEndedAt(wrap.output, i)
              IN  /\ n + wrap.width <= Len(wrap.source_text)
                  /\ line = SubSeq(wrap.source_text, n + 1, n + Len(line))
                  /\ seps # {} =>
                        \E k \in seps : /\ \A j \in seps : j <= k
                                        /\ Len(line) = k - n
                  /\ seps = {} => Len(line) = wrap.width

\* A wrap with a line cut after its separator and a line cut at the width.
C24_Witness ==
    /\ wrap.pc = "done"
    /\ wrap.keep_separators
    /\ wrap.width = 3
    /\ wrap.source_text = <<"_", "a", "a", "b">>
    /\ wrap.output = <<"_", Newline, "a", "a", "b", Newline>>

\* ------------------------------------------------------- extent properties

\* C25: a cell whose slot spans d >= 1 pixels on an axis and whose
\* normalized size lies in [0, 1] is drawn, after the gap, the guard and the
\* edge adjustment, with an extent on that axis of at least 1 pixel and at
\* most d pixels.
C25_ExtentWithinSlot ==
    extent.pc = "done" =>
        /\ extent.ending - extent.start >= 1
        /\ extent.ending - extent.start <= extent.delta_in_pix

\* The drawn extent is never less than 2 pixels, and it stays within a slot
\* of 7 pixels or more.
ExtentNeverErased ==
    extent.pc = "done" =>
        /\ extent.ending - extent.start >= 2
        /\ extent.delta_in_pix >= 7 =>
              extent.ending - extent.start <= extent.delta_in_pix

\* -------------------------------------------------- termination properties

\* An iteration has cut the line.
CutTaken == wrap.pc = "loop" /\ wrap'.pc = "loop" /\ Appended.current_length = wrap.width

\* C26: the loop of _zaric_wrap_custom ends for every source text, every
\* set of separators and every integer width, 0 and below included; every
\* cut moves the start of the current chunk strictly forward, although a cut
\* at a separator moves the scan index back.
C26_WrapTerminates ==
    /\ <>(wrap.pc = "done")
    /\ [][CutTaken => wrap'.current_chunk_start > wrap.current_chunk_start]_vars

\* The loop has ended after a cut at a separator took the scan index back.
C26_Witness ==
    /\ wrap.pc = "done"
    /\ wrap.width = 3
    /\ wrap.separator_chars = {"_"}
    /\ ~wrap.keep_separators
    /\ wrap.source_text = <<"_", "a", "a", "-">>
    /\ wrap.output = <<Newline, "a", "a", "-", Newline>>

====
